---- MODULE Spec2Model ----
(***************************************************************************)
(* Ride-pooling batch assignment (RV / RR / RTV graphs, insertion search,  *)
(* integer assignment, movement simulator) as a state machine.             *)
(*                                                                         *)
(* Part 1: network oracle, requests, stops and the insertion search        *)
(*         (src/src/env/struct/Network.py, src/src/algo/insersion.py).     *)
(* Part 2: RV / RR / RTV construction, the assignment program, the         *)
(*         movement simulator and the tick driver.                         *)
(* Part 3: specifications and the properties checked against them.         *)
(***************************************************************************)
EXTENDS Integers, Sequences, FiniteSets, TLC

VARIABLES
    glo,              \* src/utils/global_var.py: the configuration knobs
    net,              \* Network: time_matrix and adjacency_list
    req,              \* Request objects, static part: id -> origin, destination, times
    boarding_time,    \* Request.boarding_time, per request id
    alighting_time,   \* Request.alighting_time, per request id
    assigned,         \* Request.assigned, per request id
    boarded,          \* requests the simulator has boarded so far (history of just_boarded)
    alighted,         \* requests the simulator has alighted so far (history of just_alighted)
    veh,              \* Vehicle objects: id -> record
    current_time,     \* main.py: the simulation clock
    active_requests,  \* main.py: the active request list
    rv_edges,         \* RV graph: set of <<vehicle, request>> -> weight records
    rr_edges,         \* RR graph: set of directed request pairs with weight
    trip_list,        \* build_rtv_graph: vehicle id -> sequence of Trip
    assigned_trips,   \* ilp_assignment's return value: vehicle id -> Trip (partial)
    ilp,              \* the optimizer's answer of the tick: status, e, x
    pc,               \* position of the tick driver
    err,              \* the exception that stopped the run, "" if none
    call              \* the last search call of the search driver and its result

vars == <<glo, net, req, boarding_time, alighting_time, assigned, boarded, alighted,
          veh, current_time, active_requests, rv_edges, rr_edges, trip_list,
          assigned_trips, ilp, pc, err, call>>

-----------------------------------------------------------------------------
(* Bounds of the model *)

LastNode == 3          \* nodes are 0..LastNode, on a line
NumVeh == 2            \* vehicles of the tick model
NumReq == 2            \* requests of the tick model
MaxTick == 3           \* ticks the driver runs (FINAL_TIME - INITIAL_TIME) / INTERVAL
WallClock == 400000000 \* a reading of time.time(), seconds since the epoch
RecursionLimit == 100  \* nested search calls at which the interpreter raises RecursionError
                       \* (every search that ends by itself is far shallower)

(* Program constants *)

INTERVAL == 60
MISS_COST == 10000000
RMT_REWARD == 100
DWELL_PICKUP_SENTINEL == -10
DWELL_ALIGHT_SENTINEL == -20

Nodes == 0..LastNode

-----------------------------------------------------------------------------
(* Small helpers on sequences and sets *)

Range(s) == {s[i] : i \in DOMAIN s}

RECURSIVE SetToSeq(_)
SetToSeq(S) ==
    IF S = {} THEN <<>>
    ELSE LET m == CHOOSE x \in S : \A y \in S : x <= y
         IN <<m>> \o SetToSeq(S \ {m})

Reverse(s) == [i \in 1..Len(s) |-> s[Len(s) + 1 - i]]

\* The element of a one-element set. Only({ e(x) : x \in {v} }) is
\* LET x == v IN e(x) with v computed once, however often e uses x.
Only(S) == CHOOSE x \in S : TRUE

Max(a, b) == IF a >= b THEN a ELSE b
Min(a, b) == IF a <= b THEN a ELSE b
Abs(a) == IF a >= 0 THEN a ELSE 0 - a

-----------------------------------------------------------------------------
(* Network oracle *)

RECURSIVE Pos(_, _)
Pos(w, n) == IF n = 0 THEN 0 ELSE Pos(w, n - 1) + w[n]

\* A line network 0 - 1 - ... - LastNode with leg weights w[1..LastNode]: the
\* travel-time file holds the shortest-path times, the edge file both directions
\* of every leg (lower neighbour first).
LineNetwork(w) ==
    [ time_matrix |-> [a \in Nodes |-> [b \in Nodes |-> Abs(Pos(w, a) - Pos(w, b))]],
      adjacency_list |->
         [a \in Nodes |->
            (IF a > 0 THEN << [target |-> a - 1, weight |-> w[a]] >> ELSE << >>) \o
            (IF a < LastNode THEN << [target |-> a + 1, weight |-> w[a + 1]] >> ELSE << >>)] ]

\* The same line with legs of tenths/10 seconds (tenths[i] tenths of a second
\* for leg i), as the input files hold it: the travel-time file has each
\* shortest-path time rounded to the nearest second, the edge file each leg's
\* time cut to whole seconds.
RoundedNetwork(tenths) ==
    [ time_matrix |-> [a \in Nodes |-> [b \in Nodes |->
                          (Abs(Pos(tenths, a) - Pos(tenths, b)) + 5) \div 10]],
      adjacency_list |->
         [a \in Nodes |->
            (IF a > 0 THEN << [target |-> a - 1, weight |-> tenths[a] \div 10] >> ELSE << >>) \o
            (IF a < LastNode THEN << [target |-> a + 1, weight |-> tenths[a + 1] \div 10] >>
             ELSE << >>)] ]

get_time(node_one, node_two) ==
    IF node_one = DWELL_PICKUP_SENTINEL THEN glo.DWELL_PICKUP
    ELSE IF node_one = DWELL_ALIGHT_SENTINEL THEN glo.DWELL_ALIGHT
    ELSE net.time_matrix[node_one][node_two]

get_vehicle_time(vehicle, node) == vehicle.offset + get_time(vehicle.node, node)

\* One "strict step" of the walk: the first neighbour that is the destination,
\* else the neighbour with positive weight minimising weight + time(n, destination)
\* below time(here, destination) + 1 (the first one on ties), else -1.
RECURSIVE StrictStep(_, _, _, _, _, _)
StrictStep(nbrs, i, here, destination, best, node) ==
    IF i > Len(nbrs) THEN node
    ELSE IF nbrs[i].target = destination THEN destination
    ELSE LET follow_up == get_time(nbrs[i].target, destination)
         IN IF nbrs[i].weight > 0 /\ nbrs[i].weight + follow_up < best
            THEN StrictStep(nbrs, i + 1, here, destination,
                            nbrs[i].weight + follow_up, nbrs[i].target)
            ELSE StrictStep(nbrs, i + 1, here, destination, best, node)

\* The walk of Network.dijkstra. The zero-weight fallback is entered only when
\* no neighbour improves; every leg of the networks below has positive weight
\* and weight + time(n, destination) <= time(here, destination) for the next
\* node n of the line, so the strict step always finds a node and the fallback
\* (which then yields -1) ends the walk.
RECURSIVE Walk(_, _, _, _)
Walk(path, here, destination, count) ==
    IF here = destination \/ here = -1 \/ count >= 200 THEN path
    ELSE LET node == StrictStep(net.adjacency_list[here], 1, here, destination,
                                get_time(here, destination) + 1, -1)
         IN Walk(Append(path, node), node, destination, count + 1)

dijkstra(origin, destination) == Walk(<<origin>>, origin, destination, 0)

-----------------------------------------------------------------------------
(* Requests and stops *)

\* Request.__init__ / load_requests: the static fields of a request
Request(id, origin, destination, entry_time) ==
    [ id |-> id, origin |-> origin, destination |-> destination,
      entry_time |-> entry_time,
      ideal_traveltime |-> get_time(origin, destination),
      latest_boarding |-> entry_time + glo.MAX_WAITING,
      latest_alighting |-> entry_time + glo.MAX_DETOUR + get_time(origin, destination) ]

NodeStop(r, is_pickup, node) == [r |-> r, is_pickup |-> is_pickup, node |-> node]

\* NodeStop.__lt__: by request id, then dropoff before pickup
NodeStopLt(a, b) ==
    \/ a.r < b.r
    \/ a.r = b.r /\ ~a.is_pickup /\ b.is_pickup

\* NodeStop.__eq__
NodeStopEq(a, b) == a.r = b.r /\ a.is_pickup = b.is_pickup

get_alight_deadline(r) == req[r].latest_alighting

NO_ACTION == "NO_ACTION"
PICKUP == "PICKUP"
DROPOFF == "DROPOFF"

-----------------------------------------------------------------------------
(* Insertion search.  The MetaNodeStop objects of one call live in a table    *)
(* metas (a sequence); a MetaNodeStop is named by its index in it, so that    *)
(* "unlocks" keeps the reference semantics of the Python lists.               *)

MetaNodeStop(node, unlocks) == [node |-> node, unlocks |-> unlocks]

\* MetaNodeStop.__lt__ on two entries a, b of the table. id(unlocks) orders two
\* wrappers of equal stops; the allocation order (the index) stands for it.
MetaLt(metas, a, b) ==
    LET x == metas[a].node
        y == metas[b].node
    IN IF x.node < y.node THEN TRUE
       ELSE IF x.node > y.node THEN FALSE
       ELSE IF ~x.is_pickup /\ y.is_pickup THEN TRUE
       ELSE IF x.is_pickup /\ ~y.is_pickup THEN FALSE
       ELSE NodeStopLt(x, y) \/ (NodeStopEq(x, y) /\ a < b)

\* sorted(initially_available)
RECURSIVE Sorted(_, _)
Sorted(metas, S) ==
    IF S = {} THEN <<>>
    ELSE LET m == CHOOSE x \in S : \A y \in S \ {x} : ~MetaLt(metas, y, x)
         IN <<m>> \o Sorted(metas, S \ {m})

Deadline(ns) ==
    IF ns.is_pickup THEN req[ns.r].latest_boarding ELSE req[ns.r].latest_alighting

\* The clock at which the vehicle starts to serve stop ns, coming from
\* initial_location at now after prev_action (insersion.py 118-131)
ArrivalTime(initial_location, now, prev_action, ns) ==
    LET travelled == now + get_time(initial_location, ns.node)
        dwelled ==
            IF prev_action = DROPOFF /\ (ns.is_pickup \/ initial_location # ns.node)
            THEN travelled + glo.DWELL_ALIGHT
            ELSE IF prev_action = PICKUP /\ (~ns.is_pickup \/ initial_location # ns.node)
            THEN travelled + glo.DWELL_PICKUP
            ELSE travelled
    IN IF ns.is_pickup /\ req[ns.r].entry_time > dwelled
       THEN req[ns.r].entry_time ELSE dwelled

\* The wall-clock test of recursive_search_timed; tl = [on, start_time,
\* time_limit, wall] with wall the reading of time() (tl.on is FALSE for the
\* untimed recursive_search, which has no such test). tl.depth counts the
\* nested calls.
TimedOut(tl) == tl.on /\ tl.time_limit # 0 /\ (tl.wall - tl.start_time) > tl.time_limit

Untimed == [on |-> FALSE, start_time |-> 0, time_limit |-> 0, wall |-> 0, depth |-> 0]

\* The time of a result that stands for a RecursionError on its way up: the
\* stop graph has a cycle that no deadline ends
RECURSION_ERROR == -2

Feasible_NoCapacity(ns, arrival_time, new_residual_capacity) ==
    /\ ~(ns.is_pickup /\ arrival_time > req[ns.r].latest_boarding)
    /\ ~(get_alight_deadline(ns.r) < arrival_time)

\* The capacity and time-window tests on a candidate stop (insersion.py
\* 143-150): the search continues past the stop when one of them fails
Feasible(ns, arrival_time, new_residual_capacity) ==
    /\ ~(new_residual_capacity < 0)
    /\ ~(ns.is_pickup /\ arrival_time > req[ns.r].latest_boarding)
    /\ ~(get_alight_deadline(ns.r) < arrival_time)

\* The tail found last replaces the best so far
Improves_Last(tail_time, best_time) == tail_time # -1

Improves_First(tail_time, best_time) == tail_time # -1 /\ best_time = -1

\* Whether the tail found below a stop replaces the best so far (insersion.py
\* 171-174)
Improves(tail_time, best_time) ==
    tail_time # -1 /\ (best_time = -1 \/ tail_time < best_time)

RECURSIVE SearchFrom(_, _, _, _, _, _, _)
RECURSIVE SearchLoop(_, _, _, _, _, _, _, _, _, _, _)

\* The for loop of recursive_search / recursive_search_timed over the sorted
\* list lst from position i, with the loop's locals best_time, best_tail and
\* previous (0 for None).
SearchLoop(metas, lst, i, initial_location, residual_capacity, now, prev_action, tl, best_time, best_tail, previous) ==
    IF i > Len(lst) \/ TimedOut(tl) THEN [time |-> best_time, stops |-> best_tail]
    ELSE
    LET m == lst[i]
        ns == metas[m].node
    IN IF previous # 0 /\ ~ns.is_pickup /\ metas[previous].node.node = ns.node
       THEN SearchLoop(metas, lst, i + 1, initial_location, residual_capacity,
                       now, prev_action, tl, best_time, best_tail, previous)
       ELSE
       LET new_residual_capacity ==
               IF ns.is_pickup THEN residual_capacity - 1 ELSE residual_capacity + 1
           remaining_nodes == (Range(lst) \ {m}) \cup Range(metas[m].unlocks)
       IN Only({
          LET basic_reachability ==
                  \A x \in remaining_nodes :
                      arrival_time + get_time(ns.node, metas[x].node.node)
                          <= Deadline(metas[x].node)
              pruned ==
                  \/ best_time # -1 /\ arrival_time >= best_time
                  \/ ~Feasible(ns, arrival_time, new_residual_capacity)
                  \/ ~basic_reachability
          IN IF pruned
             THEN SearchLoop(metas, lst, i + 1, initial_location, residual_capacity,
                             now, prev_action, tl, best_time, best_tail, m)
             ELSE Only({
                  IF tail.time = RECURSION_ERROR THEN tail ELSE
                  SearchLoop(metas, lst, i + 1, initial_location, residual_capacity,
                             now, prev_action, tl,
                             IF Improves(tail.time, best_time) THEN tail.time ELSE best_time,
                             IF Improves(tail.time, best_time)
                             THEN Append(tail.stops, ns) ELSE best_tail,
                             m)
                  : tail \in { SearchFrom(metas, ns.node, new_residual_capacity,
                                          remaining_nodes, arrival_time, best_time,
                                          [tl |-> [tl EXCEPT !.depth = @ + 1],
                                           prev_action |-> IF ns.is_pickup THEN PICKUP
                                                           ELSE DROPOFF]) } })
          : arrival_time \in { ArrivalTime(initial_location, now, prev_action, ns) } })

\* The body shared by recursive_search and recursive_search_timed; the result
\* is (best_time, best_tail) with the stops in reverse order.
SearchFrom(metas, initial_location, residual_capacity, initially_available, now, best_time, how) ==
    IF how.tl.depth >= RecursionLimit THEN [time |-> RECURSION_ERROR, stops |-> <<>>]
    ELSE IF initially_available = {} THEN [time |-> now, stops |-> <<>>]
    ELSE SearchLoop(metas, Sorted(metas, initially_available), 1, initial_location,
                    residual_capacity, now, how.prev_action, how.tl,
                    best_time, <<>>, 0)

recursive_search(metas, initial_location, residual_capacity, initially_available, now, best_time, prev_action) ==
    SearchFrom(metas, initial_location, residual_capacity, initially_available,
               now, best_time, [tl |-> Untimed, prev_action |-> prev_action])

recursive_search_timed(metas, initial_location, residual_capacity, initially_available, now, best_time, start_time, time_limit, prev_action, wall) ==
    SearchFrom(metas, initial_location, residual_capacity, initially_available,
               now, best_time,
               [tl |-> [on |-> TRUE, start_time |-> start_time,
                        time_limit |-> time_limit, wall |-> wall, depth |-> 0],
                prev_action |-> prev_action])

-----------------------------------------------------------------------------
(* Vehicles and trips *)

\* Vehicle.__init__
Vehicle(vehicle_id, capacity, node) ==
    [ id |-> vehicle_id, capacity |-> capacity, prev_node |-> node, node |-> node,
      offset |-> 0, passengers |-> {}, just_boarded |-> {}, just_alighted |-> {},
      pending_requests |-> {}, order_record |-> <<>> ]

\* Trip.__init__ (is_fake is never set by this program: rebalancing trips do
\* not exist)
Trip(cost, order_record, requests, use_memory) ==
    [ cost |-> cost, order_record |-> order_record, requests |-> requests,
      use_memory |-> use_memory ]

\* What a search call gives back: (cost, ordered stops), or the exception it raised
Route(cost, order) == [cost |-> cost, order |-> order, raised |-> ""]
Raised(exception) == [cost |-> -1, order |-> <<>>, raised |-> exception]

-----------------------------------------------------------------------------
(* new_travel / memory / travel and their timed versions *)

\* format_path: the stops front to back; under CTSP_VTT a non-negative cost
\* becomes relative to the simulation clock
\* (a RecursionError of the search passes through it to the caller)
format_path(reverse_path, now) ==
    IF reverse_path.time = RECURSION_ERROR THEN Raised("RecursionError") ELSE
    Route(IF glo.CTSP_OBJECTIVE = "CTSP_VTT" /\ reverse_path.time >= 0
          THEN reverse_path.time - now ELSE reverse_path.time,
          Reverse(reverse_path.stops))

\* meta_nodes for the requests: per request the dropoff wrapper, then the pickup
\* wrapper that unlocks it (insersion.py 199-204)
RECURSIVE RequestMetas(_, _)
RequestMetas(requests, k) ==
    IF k > Len(requests) THEN <<>>
    ELSE << MetaNodeStop(NodeStop(requests[k], FALSE, req[requests[k]].destination), <<>>),
            MetaNodeStop(NodeStop(requests[k], TRUE, req[requests[k]].origin), <<2 * k - 1>>) >>
         \o RequestMetas(requests, k + 1)

\* meta_nodes for the onboard passengers: the first stop of each passenger in
\* order_record, in order_record order (insersion.py 207-212)
RECURSIVE OnboardMetas(_, _, _)
OnboardMetas(order_record, i, onboard) ==
    IF i > Len(order_record) THEN <<>>
    ELSE IF order_record[i].r \in onboard
    THEN << MetaNodeStop(order_record[i], <<>>) >>
         \o OnboardMetas(order_record, i + 1, onboard \ {order_record[i].r})
    ELSE OnboardMetas(order_record, i + 1, onboard)

\* The stop graph of new_travel / new_travel_timed (insersion.py 194-250 and the
\* identical 429-485): status "ok" with the table and the initially available
\* wrappers, "infeasible" for the early return -1, or the exception raised.
\* meta_nodes[-k] is metas[Len(metas) + 1 - k] and raises IndexError when
\* k > Len(metas). Building node_to_meta hashes NodeStop objects, which define
\* __eq__ without __hash__: TypeError.
StopGraph(vehicle, requests) ==
    Only({
    LET L == Len(base)
        np == Cardinality(vehicle.passengers)
        pickups == {2 * k : k \in 1..Len(requests)}
        chained == [k \in 1..L |->
                      IF k >= L + 1 - np /\ k <= L - 1
                      THEN [base[k] EXCEPT !.unlocks = <<k + 1>>] ELSE base[k]]
        new_requests == {r \in Range(requests) : r \notin vehicle.pending_requests}
        fix == glo.CTSP = "FIX_ONBOARD" /\ Len(requests) + np > glo.CARSIZE /\ np # 0
    IN IF np > L THEN [status |-> "IndexError", metas |-> base, avail |-> {}]
       ELSE [status |-> IF glo.CTSP = "FIX_PREFIX" /\ L > glo.LP_LIMITVALUE
                        THEN IF Cardinality(new_requests) * 2 > glo.LP_LIMITVALUE
                             THEN "infeasible" ELSE "TypeError"
                        ELSE "ok",
             metas |-> IF fix THEN chained ELSE base,
             avail |-> IF fix THEN pickups \cup {L + 1 - np}
                       ELSE pickups \cup {L - i : i \in 0..(np - 1)}]
    : base \in { RequestMetas(requests, 1)
                    \o OnboardMetas(vehicle.order_record, 1, vehicle.passengers) } })

ValidObjective == glo.CTSP_OBJECTIVE \in {"CTSP_VTT", "CTSP_DELAY"}

new_travel(vehicle, requests, now) ==
    Only({ IF g.status = "infeasible" THEN Route(-1, <<>>)
           ELSE IF g.status # "ok" THEN Raised(g.status)
           ELSE IF ~ValidObjective THEN Raised("RuntimeError")
           ELSE format_path(recursive_search(g.metas, vehicle.node,
                                             vehicle.capacity - Cardinality(vehicle.passengers),
                                             g.avail, now + vehicle.offset, -1, NO_ACTION),
                            now)
           : g \in { StopGraph(vehicle, requests) } })

\* The stops of order_record all available at once, no stop unlocking another
memory_Unchained(vehicle, now) ==
    LET n == Len(vehicle.order_record)
        metas == [i \in 1..n |-> MetaNodeStop(vehicle.order_record[i], <<>>)]
    IN format_path(recursive_search(metas, vehicle.node,
                                    vehicle.capacity - Cardinality(vehicle.passengers),
                                    1..n, now + vehicle.offset, -1, NO_ACTION),
                   now)

\* memory: the stops of order_record as one chain, each unlocking the next
memory(vehicle, now) ==
    LET n == Len(vehicle.order_record)
        metas == [i \in 1..n |->
                    MetaNodeStop(vehicle.order_record[i],
                                 IF i < n THEN <<i + 1>> ELSE <<>>)]
    IN format_path(recursive_search(metas, vehicle.node,
                                    vehicle.capacity - Cardinality(vehicle.passengers),
                                    IF n > 0 THEN {1} ELSE {}, now + vehicle.offset,
                                    -1, NO_ACTION),
                   now)

travel(vehicle, requests, now, trigger) ==
    IF trigger = "MEMORY" THEN memory(vehicle, now)
    ELSE IF trigger = "REBALANCING" THEN Raised("NameError")
    ELSE new_travel(vehicle, requests, now)

\* new_travel_timed passes (call_time, start_time, time_limit, -1) for the
\* parameters (current_time, best_time, start_time, time_limit) of
\* recursive_search_timed; prev_action keeps its default.
new_travel_timed(vehicle, requests, now, start_time, time_limit, wall) ==
    Only({ IF g.status = "infeasible" THEN Route(-1, <<>>)
           ELSE IF g.status # "ok" THEN Raised(g.status)
           ELSE IF ~ValidObjective THEN Raised("RuntimeError")
           ELSE format_path(recursive_search_timed(g.metas, vehicle.node,
                                                   vehicle.capacity - Cardinality(vehicle.passengers),
                                                   g.avail, now + vehicle.offset,
                                                   start_time, time_limit, -1, NO_ACTION, wall),
                            now)
           : g \in { StopGraph(vehicle, requests) } })

\* travel_timed: the trigger is looked at only without a time limit
travel_timed(vehicle, requests, now, start_time, time_limit, trigger, wall) ==
    IF time_limit = 0 THEN travel(vehicle, requests, now, trigger)
    ELSE new_travel_timed(vehicle, requests, now, start_time, time_limit, wall)

-----------------------------------------------------------------------------
(* RV and RR graphs (rvgenerator.py).  An edge is a record with its weight.  *)
(* The workers are submitted without their results being collected: an       *)
(* exception in a worker ends that worker and is never seen by the caller.   *)

\* nearest_vs of make_rvgraph: the vehicles that can reach the origin by
\* latest_boarding, stably sorted by min_wait (ids in vehicle-list order)
RECURSIVE SortByWait(_, _)
SortByWait(S, r) ==
    IF S = {} THEN <<>>
    ELSE LET v == CHOOSE x \in S : \A y \in S \ {x} :
                      \/ get_vehicle_time(veh[x], req[r].origin) < get_vehicle_time(veh[y], req[r].origin)
                      \/ /\ get_vehicle_time(veh[x], req[r].origin) = get_vehicle_time(veh[y], req[r].origin)
                         /\ x < y
         IN <<v>> \o SortByWait(S \ {v}, r)

\* The shortlist sorted the other way round, the farthest vehicle first
nearest_vs_Farthest(r, now) ==
    Reverse(SortByWait({v \in DOMAIN veh :
                           now + get_vehicle_time(veh[v], req[r].origin)
                               <= req[r].latest_boarding}, r))

nearest_vs(r, now) ==
    SortByWait({v \in DOMAIN veh :
                   now + get_vehicle_time(veh[v], req[r].origin) <= req[r].latest_boarding}, r)

\* The loop of make_rvgraph over requests[i..] and, for request i, over
\* nearest[j..]; count is the number of edges request i has so far
RECURSIVE make_rvgraph(_, _, _, _, _, _)
make_rvgraph(requests, i, j, count, edges, now) ==
    IF i > Len(requests) THEN edges
    ELSE Only({
         IF j > Len(nearest) THEN make_rvgraph(requests, i + 1, 1, 0, edges, now)
         ELSE Only({
              IF path.raised # "" THEN edges
              ELSE IF glo.PRUNING_RV_K > 0 /\ count >= glo.PRUNING_RV_K
              THEN make_rvgraph(requests, i + 1, 1, 0, edges, now)
              ELSE IF path.cost >= 0
              THEN make_rvgraph(requests, i, j + 1, count + 1,
                                edges \cup {[v |-> nearest[j], r |-> requests[i],
                                             weight |-> path.cost]},
                                now)
              ELSE make_rvgraph(requests, i, j + 1, count, edges, now)
              : path \in { travel(veh[nearest[j]], <<requests[i]>>, now, "STANDARD") } })
         : nearest \in { nearest_vs(requests[i], now) } })

\* detour_factor as the fraction <<numerator, denominator>>; <<1, 0>> is inf
detour_factor(req1, req2) ==
    LET o1 == req[req1].origin
        o2 == req[req2].origin
        d1 == req[req1].destination
        d2 == req[req2].destination
        onedist == get_time(o1, d1)
        twodist == get_time(o2, d2)
        one == <<get_time(o1, o2) + get_time(o2, d1), onedist>>
        two == <<get_time(o2, o1) + get_time(o1, d2), twodist>>
    IN IF onedist = 0 /\ twodist = 0 THEN <<0, 1>>
       ELSE IF onedist = 0 THEN two
       ELSE IF twodist = 0 THEN one
       ELSE IF two[1] * one[2] < one[1] * two[2] THEN two ELSE one

FractionLt(a, b) == a[1] * b[2] < b[1] * a[2]

\* compatible_requests.sort(key = detour factor): a stable sort of a sequence
RECURSIVE SortByDetour(_, _)
SortByDetour(request1, compatible) ==
    IF compatible = <<>> THEN <<>>
    ELSE Only({
         <<compatible[k]>>
            \o SortByDetour(request1,
                            [n \in 1..(Len(compatible) - 1) |->
                                IF n < k THEN compatible[n] ELSE compatible[n + 1]])
         : k \in { CHOOSE x \in 1..Len(compatible) : \A y \in 1..Len(compatible) :
                      \/ x = y
                      \/ FractionLt(detour_factor(request1, compatible[x].r),
                                    detour_factor(request1, compatible[y].r))
                      \/ /\ ~FractionLt(detour_factor(request1, compatible[y].r),
                                        detour_factor(request1, compatible[x].r))
                         /\ x < y } })

\* The compatible requests of request1, in request-list order
RECURSIVE Compatible(_, _, _, _)
Compatible(requests, request1, n, now) ==
    IF n > Len(requests) THEN <<>>
    ELSE LET request2 == requests[n]
             min_wait == get_time(req[request1].origin, req[request2].origin)
             rest == Compatible(requests, request1, n + 1, now)
         IN IF request1 = request2 THEN rest
            ELSE IF min_wait + Max(now, req[request1].entry_time) > req[request2].latest_boarding
            THEN rest
            ELSE Only({ IF path.raised = "" /\ path.cost >= 0
                        THEN <<[r |-> request2, cost |-> path.cost]>> \o rest
                        ELSE rest
                        \* dummyvehicle = Vehicle(0, 0, 4, request1.origin)
                        : path \in { travel(Vehicle(0, 4, req[request1].origin),
                                            <<request1, request2>>, now, "STANDARD") } })

\* A search call of the worker's iteration for requests[i] raises
rr_raises(requests, i, now) ==
    \E n \in 1..Len(requests) :
        /\ requests[n] # requests[i]
        /\ get_time(req[requests[i]].origin, req[requests[n]].origin)
              + Max(now, req[requests[i]].entry_time) <= req[requests[n]].latest_boarding
        /\ travel(Vehicle(0, 4, req[requests[i]].origin), <<requests[i], requests[n]>>,
                  now, "STANDARD").raised # ""

\* make_rrgraph for the whole request list: the iterations before the first
\* one that raises add their edges
make_rrgraph(requests, now) ==
    UNION { Only({
            {[r1 |-> requests[i], r2 |-> sorted[n].r, weight |-> sorted[n].cost] :
                n \in 1..(IF glo.PRUNING_RR_K > 0 /\ Len(sorted) > glo.PRUNING_RR_K
                          THEN glo.PRUNING_RR_K ELSE Len(sorted))}
            : sorted \in {SortByDetour(requests[i],
                                       Compatible(requests, requests[i], 1, now))} })
            : i \in {m \in 1..Len(requests) : \A k \in 1..m : ~rr_raises(requests, k, now)} }

\* rvgenerator: [rv_graph, rr_graph]
rvgenerator(requests, now) ==
    [rv |-> make_rvgraph(requests, 1, 1, 0, {}, now), rr |-> make_rrgraph(requests, now)]

-----------------------------------------------------------------------------
(* RTV graph (rtvgenerator.py) *)

\* The dwell node of stop i of node_list (-20, -10 or the node itself)
node_type(node_list, i) ==
    LET node == node_list[i]
        last == i = Len(node_list)
    IN IF ~node.is_pickup
          /\ (last \/ node_list[i + 1].is_pickup \/ node_list[i + 1].node # node.node)
       THEN DWELL_ALIGHT_SENTINEL
       ELSE IF node.is_pickup
               /\ (last \/ ~node_list[i + 1].is_pickup \/ node_list[i + 1].node # node.node)
       THEN DWELL_PICKUP_SENTINEL
       ELSE node.node

\* The loop of delay_all from stop i on: [arrival_time, delay]
RECURSIVE delay_loop(_, _, _, _, _)
delay_loop(vehicle, node_list, i, arrival_time, delay) ==
    IF i > Len(node_list) THEN delay
    ELSE LET arrived ==
                 IF i = 1 THEN arrival_time + get_vehicle_time(vehicle, node_list[1].node)
                 ELSE arrival_time + get_time(node_list[i - 1].node, node_list[i].node)
             r == node_list[i].r
             late == IF ~node_list[i].is_pickup
                     THEN Max(0, arrived - (req[r].entry_time + req[r].ideal_traveltime))
                     ELSE 0
         IN delay_loop(vehicle, node_list, i + 1,
                       arrived + get_time(node_type(node_list, i), vehicle.node),
                       delay + late)

delay_all(vehicle, node_list, now) ==
    IF node_list = <<>> THEN 0 ELSE delay_loop(vehicle, node_list, 1, now, 0)

\* The cost a trip is stored with
stored_cost(vehicle, route, now) ==
    IF glo.CTSP_OBJECTIVE = "CTSP_DELAY" THEN delay_all(vehicle, route.order, now)
    ELSE route.cost

\* previoustrip: the memory replay as a trip, or the exception of the search
previoustrip(vehicle, now) ==
    Only({ [raised |-> route.raised,
            trip |-> Trip(stored_cost(vehicle, route, now), route.order,
                          vehicle.pending_requests, TRUE)]
           : route \in { travel_timed(vehicle, SetToSeq(vehicle.pending_requests), now,
                                      0, 0, "MEMORY", 0) } })

\* Every pair of requests counts as connected
is_rr_connected_Any(requests1, requests2, rr_graph) == TRUE

is_rr_connected(requests1, requests2, rr_graph) ==
    \A r1 \in requests1, r2 \in requests2 :
        r1 # r2 => \E e \in rr_graph : << e.r1, e.r2 >> \in { <<r1, r2>>, <<r2, r1>> }

all_subsets_exist(requests, previous_round) ==
    \A request \in requests :
        \E n \in 1..Len(previous_round) : previous_round[n].requests = requests \ {request}

\* The pairs (idx1, idx2) of a round of n trips, in loop order
RECURSIVE PairsFrom(_, _, _)
PairsFrom(n, idx1, idx2) ==
    IF idx1 >= n THEN <<>>
    ELSE IF idx2 > n THEN PairsFrom(n, idx1 + 1, idx1 + 2)
    ELSE << <<idx1, idx2>> >> \o PairsFrom(n, idx1, idx2 + 1)

\* The two nested loops that build round k from previous_round, from pair p
\* on.  budget is the number of wall-clock tests that still pass before the
\* time limit is exceeded (RTV_TIMELIMIT > 0 only); after the test fails every
\* later pair fails it too.
RECURSIVE level_loop(_, _, _, _, _, _, _, _, _)
level_loop(vehicle, k, previous_round, pairs, p, acc, budget, graphs, now) ==
    IF p > Len(pairs) THEN acc
    ELSE IF glo.RTV_TIMELIMIT # 0 /\ budget - (p - 1) <= 0
    THEN [acc EXCEPT !.timeout = TRUE]
    ELSE LET trip1 == previous_round[pairs[p][1]]
             trip2 == previous_round[pairs[p][2]]
             combined_requests == trip1.requests \cup trip2.requests
             new_requests == combined_requests \ vehicle.pending_requests
             skip ==
                 \/ Cardinality(combined_requests) # k
                 \/ combined_requests \in acc.existing_trips
                 \/ Cardinality(new_requests) * 2 > glo.MAX_NEW
                 \/ ~is_rr_connected(trip1.requests, trip2.requests, graphs.rr)
                 \/ ~all_subsets_exist(combined_requests, previous_round)
         IN IF skip
            THEN level_loop(vehicle, k, previous_round, pairs, p + 1, acc, budget, graphs, now)
            ELSE Only({
                 IF route.raised # "" THEN [acc EXCEPT !.raised = route.raised]
                 ELSE IF route.cost < 0
                 THEN level_loop(vehicle, k, previous_round, pairs, p + 1, acc, budget,
                                 graphs, now)
                 ELSE level_loop(vehicle, k, previous_round, pairs, p + 1,
                                 [acc EXCEPT
                                    !.round = Append(@, Trip(stored_cost(vehicle, route, now),
                                                             route.order, combined_requests,
                                                             FALSE)),
                                    !.existing_trips = @ \cup {combined_requests}],
                                 budget, graphs, now)
                 : route \in { travel_timed(vehicle, SetToSeq(combined_requests), now,
                                            WallClock, glo.RTV_TIMELIMIT, "STANDARD",
                                            WallClock) } })

\* Level growth that goes on past k = vehicle.capacity
RECURSIVE grow_rounds_NoCapacityStop(_, _, _, _, _, _)
grow_rounds_NoCapacityStop(vehicle, rounds, k, budget, graphs, now) ==
    IF rounds[k + 1] = <<>>
    THEN [rounds |-> rounds, raised |-> ""]
    ELSE LET previous_round == rounds[k + 1]
             pairs == PairsFrom(Len(previous_round), 1, 2)
         IN Only({
            IF got.raised # "" THEN [rounds |-> rounds, raised |-> got.raised]
            ELSE IF got.timeout
            THEN [rounds |-> Append(rounds, got.round), raised |-> ""]
            ELSE grow_rounds_NoCapacityStop(vehicle, Append(rounds, got.round), k + 1,
                                            budget - Len(pairs), graphs, now)
            : got \in { level_loop(vehicle, k + 1, previous_round, pairs, 1,
                                   [round |-> <<>>, timeout |-> FALSE, raised |-> "",
                                    existing_trips |-> {previous_round[n].requests :
                                                           n \in 1..Len(previous_round)}],
                                   budget, graphs, now) } })

\* The while loop over the trip size k: rounds[k + 1] holds the trips of size k
RECURSIVE grow_rounds(_, _, _, _, _, _)
grow_rounds(vehicle, rounds, k, budget, graphs, now) ==
    IF rounds[k + 1] = <<>> \/ k + 1 > vehicle.capacity
    THEN [rounds |-> rounds, raised |-> ""]
    ELSE LET previous_round == rounds[k + 1]
             pairs == PairsFrom(Len(previous_round), 1, 2)
         IN Only({
            IF got.raised # "" THEN [rounds |-> rounds, raised |-> got.raised]
            ELSE IF got.timeout
            THEN [rounds |-> Append(rounds, got.round), raised |-> ""]
            ELSE grow_rounds(vehicle, Append(rounds, got.round), k + 1,
                             budget - Len(pairs), graphs, now)
            : got \in { level_loop(vehicle, k + 1, previous_round, pairs, 1,
                                   [round |-> <<>>, timeout |-> FALSE, raised |-> "",
                                    existing_trips |-> {previous_round[n].requests :
                                                           n \in 1..Len(previous_round)}],
                                   budget, graphs, now) } })

\* Trips with one request, for the requests of initial_pairing from the n-th on
RECURSIVE first_round(_, _, _, _)
first_round(vehicle, initial_pairing, n, now) ==
    IF n > Len(initial_pairing) THEN [round |-> <<>>, raised |-> ""]
    ELSE Only({
         IF route.raised # "" THEN [round |-> <<>>, raised |-> route.raised]
         ELSE IF route.cost < 0 THEN first_round(vehicle, initial_pairing, n + 1, now)
         ELSE [first_round(vehicle, initial_pairing, n + 1, now) EXCEPT !.round =
                  <<Trip(stored_cost(vehicle, route, now), route.order,
                         {initial_pairing[n]}, FALSE)>> \o @]
         : route \in { travel_timed(vehicle, <<initial_pairing[n]>>, now, 0, 0,
                                    "STANDARD", 0) } })

\* The list compiled without the trips of two requests
RECURSIVE Flatten_NoPairs(_)
Flatten_NoPairs(rounds) ==
    IF rounds = <<>> THEN <<>>
    ELSE SelectSeq(Head(rounds), LAMBDA t : Cardinality(t.requests) # 2)
             \o Flatten_NoPairs(Tail(rounds))

\* potential_trips (rtvgenerator.py 214): the rounds one after the other
RECURSIVE Flatten(_)
Flatten(rounds) == IF rounds = <<>> THEN <<>> ELSE Head(rounds) \o Flatten(Tail(rounds))

ids(order) == [n \in 1..Len(order) |-> order[n].r]

\* An end of make_rtvgraph that forgets the previous assignment: no memory
\* step, and no trip with a committed request
trips_of_Forgetful(vehicle, rounds, now) ==
    [raised |-> "",
     trips |-> SelectSeq(Flatten(rounds), LAMBDA t : \A r \in t.requests : ~assigned[r])]

\* The end of make_rtvgraph (rtvgenerator.py 213-234) on the rounds built:
\* the negative-cost check and the memory step
trips_of(vehicle, rounds, now) ==
    LET potential_trips == Flatten(rounds)
        np == Cardinality(vehicle.pending_requests)
        potential_trips_request_id ==
            IF np < Len(rounds)
            THEN {ids(rounds[np + 1][n].order_record) : n \in 1..Len(rounds[np + 1])}
            ELSE {}
    IN IF \E n \in 1..Len(potential_trips) : potential_trips[n].cost = -1
       THEN [raised |-> "Negative cost in potential trips", trips |-> <<>>]
       ELSE IF vehicle.order_record # <<>>
               /\ ids(vehicle.order_record) \notin potential_trips_request_id
       THEN Only({
            IF previous_trip.raised # ""
            THEN [raised |-> previous_trip.raised, trips |-> <<>>]
            ELSE IF previous_trip.trip.cost = -1
            THEN [raised |-> "Previous assignment no longer feasible", trips |-> <<>>]
            ELSE [raised |-> "", trips |-> Append(potential_trips, previous_trip.trip)]
            : previous_trip \in { previoustrip(vehicle, now) } })
       ELSE [raised |-> "", trips |-> potential_trips]

\* make_rtvgraph for one vehicle: its trip list, or the exception raised
make_rtvgraph(vehicle, graphs, budget, now) ==
    Only({
    IF route0.raised # "" THEN [raised |-> route0.raised, trips |-> <<>>]
    ELSE Only({
         IF first.raised # "" THEN [raised |-> first.raised, trips |-> <<>>]
         ELSE Only({
              IF grown.raised # "" THEN [raised |-> grown.raised, trips |-> <<>>]
              ELSE trips_of(vehicle, grown.rounds, now)
              : grown \in { grow_rounds(vehicle,
                                        << <<Trip(stored_cost(vehicle, route0, now),
                                                  route0.order, {}, FALSE)>>,
                                           first.round >>,
                                        1, budget, graphs, now) } })
         \* initial_pairing: the requests of the vehicle's RV edges and its
         \* pending requests
         : first \in { first_round(vehicle,
                                   SetToSeq({e.r : e \in {x \in graphs.rv : x.v = vehicle.id}}
                                            \cup vehicle.pending_requests),
                                   1, now) } })
    : route0 \in { travel_timed(vehicle, <<>>, now, WallClock, glo.RTV_TIMELIMIT,
                                "STANDARD", WallClock) } })

-----------------------------------------------------------------------------
(* Assignment (assignment.py) *)

\* build_rtv_graph with one worker: the vehicles in list order; the first
\* exception of make_rtvgraph comes out of future.result()
RECURSIVE build_rtv_graph(_, _, _, _, _)
build_rtv_graph(v, graphs, budget, now, lists) ==
    IF v > Cardinality(DOMAIN veh) THEN [raised |-> "", trip_list |-> lists]
    ELSE Only({ IF made.raised # "" THEN [raised |-> made.raised, trip_list |-> <<>>]
                ELSE build_rtv_graph(v + 1, graphs, budget, now, Append(lists, made.trips))
                : made \in { make_rtvgraph(veh[v], graphs, budget[v], now) } })

\* The two checks of ilp_assignement_full on the trip lists (165-185)
missing_assigned_requests(lists, requests) ==
    {r \in Range(requests) : assigned[r]}
        \ UNION (UNION {{lists[v][n].requests : n \in 1..Len(lists[v])} : v \in DOMAIN lists})

replicated(lists, v) ==
    \E n \in 1..Len(lists[v]) : lists[v][n].requests = veh[v].pending_requests

\* Constraint one as "at most one" whatever the algorithm
Selections_AtMostOne(lists) ==
    {e \in [DOMAIN lists -> 0..Max(Len(lists[1]), Len(lists[NumVeh]))] :
        \A v \in DOMAIN lists : e[v] <= Len(lists[v])}

\* A choice of e: per vehicle the index of its selected trip, 0 for none
Selections(lists) ==
    LET longest == IF DOMAIN lists = {} THEN 0
                   ELSE CHOOSE n \in {Len(lists[v]) : v \in DOMAIN lists} :
                            \A v \in DOMAIN lists : Len(lists[v]) <= n
    IN {e \in [DOMAIN lists -> 0..longest] :
           \A v \in DOMAIN lists :
               /\ e[v] <= Len(lists[v])
               /\ glo.ALGORITHM = "ILP_FULL" => e[v] # 0}

\* sum of e_i over the trips that contain the request
Covering(lists, e, r) ==
    Cardinality({v \in DOMAIN lists : e[v] # 0 /\ r \in lists[v][e[v]].requests})

\* Constraint two with the committed requests treated like new ones
cover_or_absorb_NoCommit(lists, requests, e) ==
    \A k \in 1..Len(requests) : Covering(lists, e, requests[k]) <= 1

\* No constraint two: a request may be in the selected trips of two vehicles
cover_or_absorb_Shared(lists, requests, e) == TRUE

\* Constraint two (79-87)
cover_or_absorb(lists, requests, e) ==
    \A k \in 1..Len(requests) :
        IF assigned[requests[k]] THEN Covering(lists, e, requests[k]) = 1
        ELSE Covering(lists, e, requests[k]) <= 1

\* x_k of a solution: what constraint two leaves for a request that is not
\* committed; the x of a committed request appears in no constraint and the
\* minimisation leaves it 0
x_of(lists, requests, e) ==
    [k \in 1..Len(requests) |->
        IF assigned[requests[k]] THEN 0 ELSE 1 - Covering(lists, e, requests[k])]

RECURSIVE SumOver(_, _)
SumOver(f, S) ==
    IF S = {} THEN 0
    ELSE LET a == CHOOSE b \in S : TRUE IN f[a] + SumOver(f, S \ {a})

objective(lists, requests, e) ==
    LET x == x_of(lists, requests, e)
        trip_cost == [v \in DOMAIN lists |-> IF e[v] = 0 THEN 0 ELSE lists[v][e[v]].cost]
        miss == [k \in 1..Len(requests) |->
                    IF glo.ASSIGNMENT_OBJECTIVE = "AO_SERVICERATE" THEN MISS_COST * x[k]
                    ELSE RMT_REWARD * req[requests[k]].ideal_traveltime * x[k]]
    IN SumOver(trip_cost, DOMAIN lists) + SumOver(miss, 1..Len(requests))

\* The solutions Gurobi may stop at: feasible, and within MIPGap = 0.05 of the
\* optimum
acceptable(lists, requests) ==
    LET feasible == {e \in Selections(lists) : cover_or_absorb(lists, requests, e)}
    IN {e \in feasible :
           \A o \in feasible :
               LET gap == objective(lists, requests, e) - objective(lists, requests, o)
               IN gap <= 0 \/ gap <= Abs(objective(lists, requests, e)) \div 20}

\* Blank trips (main.py 128-135): selected, no passengers, no requests
blank(lists, e, v) ==
    e[v] # 0 /\ veh[v].passengers = {} /\ lists[v][e[v]].requests = {}

-----------------------------------------------------------------------------
(* Movement (simulate.py).  m is the state of one move_vehicle call: the     *)
(* vehicle's position fields, the locals and what was written to requests.   *)

\* The walk along the waypoints from leg w on (136-151)
RECURSIVE traverse(_, _, _)
traverse(waypoints, w, m) ==
    IF w >= Len(waypoints) THEN m
    ELSE LET origin == waypoints[w]
             destination == waypoints[w + 1]
             traveltime == get_time(origin, destination)
         IN IF traveltime >= m.traveltime_left
            THEN [m EXCEPT !.prev_node = origin, !.node = destination,
                           !.interrupted = TRUE,
                           !.clock = @ + m.traveltime_left,
                           !.offset = traveltime - m.traveltime_left,
                           !.traveltime_left = 0]
            ELSE traverse(waypoints, w + 1,
                          [m EXCEPT !.prev_node = destination, !.node = destination,
                                    !.clock = @ + traveltime,
                                    !.traveltime_left = @ - traveltime])

\* Simulate travel to stop i of the path (127-151)
reach(path, i, m) ==
    Only({ IF Len(waypoints) = 1
           THEN [m EXCEPT !.prev_node = waypoints[1], !.node = waypoints[1], !.offset = 0]
           ELSE traverse(waypoints, 1, m)
           : waypoints \in { dijkstra(m.node, path[i].node) } })

\* The drop-off or pickup at stop i (160-182); list.remove and set.remove
\* raise when the request is not there
serve(path, i, there) ==
    LET r == path[i].r
    IN IF ~path[i].is_pickup
       THEN [there EXCEPT !.job_completed = @ + 1,
                          !.alighting = @ \cup {<<r, there.clock>>},
                          !.just_alighted = @ \cup {r},
                          !.onboard = @ \ {r},
                          !.raised = IF r \in there.onboard THEN "" ELSE "KeyError"]
       ELSE [there EXCEPT !.job_completed = @ + 1,
                          !.boarding = @ \cup {<<r, there.clock>>},
                          !.just_boarded = @ \cup {r},
                          !.pending_requests = @ \ {r},
                          !.onboard = IF r \in there.pending_requests THEN @ \cup {r} ELSE @,
                          !.raised = IF r \in there.pending_requests THEN "" ELSE "KeyError"]

\* The loop over the path from stop i on (111-199)
RECURSIVE along(_, _, _)
along(path, i, m) ==
    IF i > Len(path) \/ m.traveltime_left <= 0 THEN m
    ELSE Only({
         IF there.interrupted THEN there
         ELSE IF there.traveltime_left <= 0 THEN [there EXCEPT !.interrupted = TRUE]
         ELSE Only({
              LET dwell == get_time(node_type(path, i), served.node)
              IN IF served.raised # "" THEN served
                 ELSE IF dwell >= served.traveltime_left
                 THEN [served EXCEPT !.prev_node = node_type(path, i),
                                     !.interrupted = TRUE,
                                     !.offset = dwell - served.traveltime_left]
                 ELSE along(path, i + 1,
                            [served EXCEPT !.traveltime_left = @ - dwell,
                                           !.clock = @ + dwell])
              : served \in { serve(path, i, there) } })
         : there \in { reach(path, i, m) } })

\* The whole path kept, the stops already served included
remaining_order_All(path, job_completed) == path

\* path[job_completed:], the stops not served yet (205)
remaining_order(path, job_completed) ==
    SubSeq(path, job_completed + 1, Len(path))

\* move_vehicle on a vehicle whose just_boarded, just_alighted and
\* pending_requests simulate_vehicle has cleared: the vehicle afterwards, the
\* times written to the requests, and the exception raised, if any
move_vehicle(vehicle, trip, now) ==
    Only({
    IF route.raised # ""
    THEN [vehicle |-> vehicle, boarding |-> {}, alighting |-> {}, raised |-> route.raised]
    ELSE IF route.cost = -1
    THEN [vehicle |-> vehicle, boarding |-> {}, alighting |-> {},
          raised |-> "Simulation error in simulator"]
    ELSE Only({
         LET moved == [vehicle EXCEPT !.prev_node = m.prev_node, !.node = m.node,
                                      !.offset = m.offset,
                                      !.just_boarded = m.just_boarded,
                                      !.just_alighted = m.just_alighted]
         IN IF m.raised # ""
            THEN [vehicle |-> moved, boarding |-> m.boarding, alighting |-> m.alighting,
                  raised |-> m.raised]
            ELSE [vehicle |-> [moved EXCEPT
                                 !.passengers = m.onboard,
                                 !.order_record = remaining_order(route.order,
                                                                  m.job_completed),
                                 !.pending_requests = m.pending_requests],
                  boarding |-> m.boarding, alighting |-> m.alighting, raised |-> ""]
         : m \in { LET arriving == vehicle.offset < INTERVAL
                   IN along(route.order, 1,
                        [prev_node |-> IF arriving THEN vehicle.node ELSE vehicle.prev_node,
                         node |-> vehicle.node,
                         offset |-> IF arriving THEN 0 ELSE vehicle.offset - INTERVAL,
                         clock |-> IF arriving THEN now + vehicle.offset ELSE now + INTERVAL,
                         traveltime_left |-> IF arriving THEN INTERVAL - vehicle.offset ELSE 0,
                         onboard |-> vehicle.passengers, pending_requests |-> trip.requests,
                         job_completed |-> 0, interrupted |-> FALSE,
                         just_boarded |-> {}, just_alighted |-> {},
                         boarding |-> {}, alighting |-> {}, raised |-> ""]) } })
    : route \in { IF trip.order_record = <<>>
                  THEN travel(vehicle, SetToSeq(trip.requests), now,
                              IF trip.use_memory THEN "MEMORY" ELSE "STANDARD")
                  ELSE Route(trip.cost, trip.order_record) } })

move_jobless_vehicle(vehicle) ==
    IF vehicle.offset <= INTERVAL
    THEN [vehicle EXCEPT !.prev_node = vehicle.node, !.offset = 0, !.order_record = <<>>]
    ELSE [vehicle EXCEPT !.offset = @ - INTERVAL, !.order_record = <<>>]

\* simulate_vehicle; trip is a sequence: <<>> for no assignment, else <<trip>>
simulate_vehicle(vehicle, trip, now) ==
    LET cleared == [vehicle EXCEPT !.just_boarded = {}, !.just_alighted = {},
                                   !.pending_requests = {}]
    IN IF trip # <<>> /\ (trip[1].requests # {} \/ vehicle.passengers # {})
       THEN move_vehicle(cleared, trip[1], now)
       ELSE [vehicle |-> IF vehicle.offset # 0 THEN move_jobless_vehicle(cleared)
                         ELSE [cleared EXCEPT !.order_record = <<>>],
             boarding |-> {}, alighting |-> {}, raised |-> ""]

\* simulate_vehicles with one worker: the vehicles in list order. The worker's
\* result is never read: an exception ends the worker, the vehicles after the
\* one that raised are not simulated, and the caller goes on.
RECURSIVE simulate_vehicles(_, _, _, _)
simulate_vehicles(v, trips, now, acc) ==
    IF v > Cardinality(DOMAIN veh) THEN acc
    ELSE Only({
         LET next == [vehicles |-> [acc.vehicles EXCEPT ![v] = got.vehicle],
                      boarding |-> acc.boarding \cup got.boarding,
                      alighting |-> acc.alighting \cup got.alighting,
                      raised |-> got.raised]
         IN IF got.raised # "" THEN next
            ELSE simulate_vehicles(v + 1, trips, now, next)
         : got \in { simulate_vehicle(veh[v], trips[v], now) } })

-----------------------------------------------------------------------------
(* Configurations *)

\* src/utils/global_var.py as shipped
DefaultGlo ==
    [ PRUNING_RV_K |-> 0, PRUNING_RR_K |-> 0, RTV_TIMELIMIT |-> 0, MAX_NEW |-> 8,
      LP_LIMITVALUE |-> 8, CTSP_OBJECTIVE |-> "CTSP_VTT", MAX_DETOUR |-> 600,
      DWELL_ALIGHT |-> 0, DWELL_PICKUP |-> 0, MAX_WAITING |-> 300,
      CTSP |-> "FIX_ONBOARD", CARSIZE |-> 4, ALGORITHM |-> "ILP_FULL",
      ASSIGNMENT_OBJECTIVE |-> "AO_SERVICERATE" ]

NoCall == [op |-> "none", requests |-> <<>>, vehicle |-> Vehicle(0, 0, 0), result |-> Route(0, <<>>)]

-----------------------------------------------------------------------------
(* The search driver: the feasibility search as a function of its inputs.   *)
(* Init draws a configuration, a network, the requests, one vehicle with    *)
(* passengers on board, and the clock; the actions call the search.         *)

SearchNetworks == { LineNetwork([i \in 1..LastNode |-> 60]),
                    LineNetwork([i \in 1..LastNode |-> IF i = 2 THEN 40 ELSE 20]) }

SearchPolicies == { <<"FULL", 8>>, <<"FIX_ONBOARD", 8>>, <<"FIX_PREFIX", 8>>, <<"FIX_PREFIX", 4>> }
SearchDwells == { <<0, 0>>, <<10, 20>> }
SearchWindows == { <<300, 600>>, <<70, 50>> }
SearchCapacities == { 1, 2 }

SearchConfigs ==
    { [DefaultGlo EXCEPT !.CTSP = p[1], !.LP_LIMITVALUE = p[2],
                         !.DWELL_PICKUP = d[1], !.DWELL_ALIGHT = d[2],
                         !.MAX_WAITING = w[1], !.MAX_DETOUR = w[2], !.CARSIZE = c] :
        p \in SearchPolicies, d \in SearchDwells, w \in SearchWindows, c \in SearchCapacities }

\* Requests 1..3 may be asked for, requests 4 and 5 may be on board
NewIds == {1, 2, 3}
OnboardIds == {4, 5}

SearchRequests ==
    { << Request(1, 0, 3, e), Request(2, 1, 2, e), Request(3, 2, 0, 0),
         Request(4, 0, 2, 0), Request(5, 1, 3, 0) >> : e \in {0, 60} }

\* The vehicle's passengers with their dropoffs in order_record, in either order
SearchOnboard ==
    { [passengers |-> {}, order_record |-> <<>>],
      [passengers |-> {4}, order_record |-> <<NodeStop(4, FALSE, 2)>>],
      [passengers |-> {4, 5}, order_record |-> <<NodeStop(4, FALSE, 2), NodeStop(5, FALSE, 3)>>],
      [passengers |-> {4, 5}, order_record |-> <<NodeStop(5, FALSE, 3), NodeStop(4, FALSE, 2)>>] }

SearchPositions == { <<0, 0>>, <<1, 15>> }

SearchInit ==
    /\ glo \in SearchConfigs
    /\ net \in SearchNetworks
    /\ req \in SearchRequests
    /\ \E o \in SearchOnboard, p \in SearchPositions :
          /\ Cardinality(o.passengers) <= glo.CARSIZE
          /\ veh = [v \in {1} |->
                      [Vehicle(1, glo.CARSIZE, p[1]) EXCEPT
                          !.offset = p[2], !.passengers = o.passengers,
                          !.order_record = o.order_record]]
    /\ current_time = 60
    /\ boarding_time = [r \in DOMAIN req |-> 0]
    /\ alighting_time = [r \in DOMAIN req |-> 0]
    /\ assigned = [r \in DOMAIN req |-> FALSE]
    /\ boarded = {}
    /\ alighted = {}
    /\ active_requests = <<>>
    /\ rv_edges = {}
    /\ rr_edges = {}
    /\ trip_list = <<>>
    /\ assigned_trips = <<>>
    /\ ilp = [status |-> "none"]
    /\ pc = "search"
    /\ err = ""
    /\ call = NoCall

SearchUnchanged ==
    UNCHANGED <<glo, net, req, boarding_time, alighting_time, assigned, boarded, alighted,
                current_time, active_requests, rv_edges, rr_edges, trip_list,
                assigned_trips, ilp, pc, err>>

\* travel(vehicle, requests, network, current_time) with the default trigger
SearchTravel ==
    /\ pc = "search" /\ call.op = "none"
    /\ \E R \in SUBSET NewIds :
          call' = [op |-> "travel", requests |-> SetToSeq(R), vehicle |-> veh[1],
                   result |-> travel(veh[1], SetToSeq(R), current_time, "STANDARD")]
    /\ UNCHANGED veh
    /\ SearchUnchanged

\* travel_timed(...) with a positive time limit, started at wall-clock
\* reading WallClock and reading the clock again e seconds later
SearchTravelTimed ==
    /\ pc = "search" /\ call.op = "none"
    /\ \E R \in SUBSET NewIds, e \in {0, 2} :
          call' = [op |-> "travel_timed", requests |-> SetToSeq(R), vehicle |-> veh[1],
                   result |-> travel_timed(veh[1], SetToSeq(R), current_time,
                                           WallClock, 1, "STANDARD", WallClock + e)]
    /\ UNCHANGED veh
    /\ SearchUnchanged

\* The vehicle takes the returned route as its plan: the requests become
\* pending and the route its order_record (move_vehicle, before any stop is
\* reached)
SearchAdopt ==
    /\ pc = "search" /\ call.op = "travel"
    /\ call.result.raised = "" /\ call.result.cost >= 0
    /\ veh' = [veh EXCEPT ![1].order_record = call.result.order,
                          ![1].pending_requests = Range(call.requests)]
    /\ call' = [call EXCEPT !.op = "adopted"]
    /\ SearchUnchanged

\* travel(vehicle, vehicle.pending_requests, network, current_time, 'MEMORY')
SearchMemory ==
    /\ pc = "search" /\ call.op = "adopted"
    /\ call' = [op |-> "memory", requests |-> SetToSeq(veh[1].pending_requests),
                vehicle |-> veh[1],
                result |-> travel(veh[1], SetToSeq(veh[1].pending_requests),
                                  current_time, "MEMORY")]
    /\ UNCHANGED veh
    /\ SearchUnchanged

SearchNext == SearchTravel \/ SearchTravelTimed \/ SearchAdopt \/ SearchMemory

SpecSearch == SearchInit /\ [][SearchNext]_vars

-----------------------------------------------------------------------------
(* The tick driver (main.py 98-252): one action per phase of the loop body   *)

\* decode_time(FINAL_TIME) for a run of MaxTick ticks from INITIAL_TIME = 0
final_time == MaxTick * INTERVAL

Vehicles == 1..NumVeh

\* An admission one tick early: the requests that enter during the tick
get_new_requests_Early(now) ==
    SetToSeq({r \in DOMAIN req :
                 req[r].entry_time - INTERVAL <= now /\ now < req[r].entry_time})

\* get_new_requests, in request-list order
get_new_requests(now) ==
    SetToSeq({r \in DOMAIN req :
                 req[r].entry_time <= now /\ now < req[r].entry_time + INTERVAL})

\* Pair-loop budgets of a tick's RTV workers: how many wall-clock tests pass
\* before RTV_TIMELIMIT is exceeded (NoTimeout: the limit is never exceeded)
NoTimeout == 99
Budgets == IF glo.RTV_TIMELIMIT = 0 THEN {NoTimeout} ELSE {0, 1, NoTimeout}

TickUnchanged == UNCHANGED <<glo, net, req, call>>

\* main.py 104-116: advance the clock and admit the new requests
Admit ==
    /\ pc = "admit"
    /\ current_time < final_time - INTERVAL
    /\ current_time' = current_time + INTERVAL
    /\ active_requests' = active_requests \o get_new_requests(current_time + INTERVAL)
    /\ pc' = "build"
    /\ UNCHANGED <<boarding_time, alighting_time, assigned, boarded, alighted, veh,
                   rv_edges, rr_edges, trip_list, assigned_trips, ilp, err>>
    /\ TickUnchanged

\* ilp_assignement_full up to the solver (assignment.py 154-185): the RV and
\* RR graphs, the RTV trip lists and the two checks on them
BuildGraphs ==
    /\ pc = "build"
    /\ \E budget \in [Vehicles -> Budgets],
          graphs \in { rvgenerator(active_requests, current_time) } :
          \E built \in { build_rtv_graph(1, graphs, budget, current_time, <<>>) } :
             \E raised \in {
                   IF built.raised # "" THEN built.raised
                   ELSE IF missing_assigned_requests(built.trip_list, active_requests) # {}
                   THEN "Some previously assigned requests were not included in any trip."
                   ELSE IF \E v \in Vehicles : ~replicated(built.trip_list, v)
                   THEN "Did not replicate the previous trip!"
                   ELSE "" } :
                /\ rv_edges' = graphs.rv
                /\ rr_edges' = graphs.rr
                /\ trip_list' = built.trip_list
                /\ err' = raised
                /\ pc' = IF raised = "" THEN "ilp" ELSE "error"
    /\ UNCHANGED <<boarding_time, alighting_time, assigned, boarded, alighted, veh,
                   current_time, active_requests, assigned_trips, ilp>>
    /\ TickUnchanged

NoSolution(status) ==
    [status |-> status, e |-> [v \in Vehicles |-> 0],
     x |-> [k \in 1..Len(active_requests) |-> 0]]

\* ilp_assignment (assignment.py 7-139) and the removal of the blank trips
\* (main.py 128-135). assigned_trips[v] is the index of v's trip in
\* trip_list[v], 0 when v has none.
IlpAssignment ==
    /\ pc = "ilp"
    /\ \E solutions \in { acceptable(trip_list, active_requests) } :
          IF \A v \in Vehicles : trip_list[v] = <<>>
          THEN ilp' = NoSolution("no trips") /\ assigned_trips' = [v \in Vehicles |-> 0]
          ELSE IF solutions = {}
          THEN ilp' = NoSolution("infeasible") /\ assigned_trips' = [v \in Vehicles |-> 0]
          ELSE \E e \in solutions :
                  /\ ilp' = [status |-> "solved", e |-> e,
                             x |-> x_of(trip_list, active_requests, e)]
                  /\ assigned_trips' = [v \in Vehicles |->
                                           IF blank(trip_list, e, v) THEN 0 ELSE e[v]]
    /\ pc' = "move"
    /\ UNCHANGED <<boarding_time, alighting_time, assigned, boarded, alighted, veh,
                   current_time, active_requests, rv_edges, rr_edges, trip_list, err>>
    /\ TickUnchanged

\* r.boarding_time / r.alighting_time after the writes <<request, clock>> of
\* one tick (a request is written at most once; the latest write stays)
written(times, old) ==
    [r \in DOMAIN req |->
        IF \E w \in times : w[1] = r
        THEN (CHOOSE w \in times : w[1] = r /\ \A u \in times : u[1] = r => u[2] <= w[2])[2]
        ELSE old[r]]

\* simulate_vehicles (main.py 148)
SimulateVehicles ==
    /\ pc = "move"
    /\ \E got \in { simulate_vehicles(1,
                        [v \in Vehicles |->
                            IF assigned_trips[v] = 0 THEN <<>>
                            ELSE <<trip_list[v][assigned_trips[v]]>>],
                        current_time,
                        [vehicles |-> veh, boarding |-> {}, alighting |-> {},
                         raised |-> ""]) } :
          /\ veh' = got.vehicles
          /\ boarding_time' = written(got.boarding, boarding_time)
          /\ alighting_time' = written(got.alighting, alighting_time)
          /\ boarded' = boarded \cup {w[1] : w \in got.boarding}
          /\ alighted' = alighted \cup {w[1] : w \in got.alighting}
    /\ pc' = "update"
    /\ UNCHANGED <<assigned, current_time, active_requests, rv_edges, rr_edges,
                   trip_list, assigned_trips, ilp, err>>
    /\ TickUnchanged

\* assigned_requests of main.py 138-140: the requests of the assigned trips,
\* vehicle by vehicle
RECURSIVE assigned_requests_from(_)
assigned_requests_from(v) ==
    IF v > NumVeh THEN <<>>
    ELSE (IF assigned_trips[v] = 0 THEN <<>>
          ELSE SetToSeq(trip_list[v][assigned_trips[v]].requests))
         \o assigned_requests_from(v + 1)

\* main.py 229-248: the active list of the next tick and the assigned flags
UpdateActive ==
    /\ pc = "update"
    /\ LET assigned_requests == assigned_requests_from(1)
           boarded_requests == UNION {veh[v].just_boarded : v \in Vehicles}
       IN /\ active_requests' =
                SelectSeq(assigned_requests,
                          LAMBDA r : r \notin boarded_requests
                                     /\ current_time < req[r].latest_boarding)
          /\ assigned' = [r \in DOMAIN req |-> assigned[r] \/ r \in Range(assigned_requests)]
    /\ pc' = "admit"
    /\ UNCHANGED <<boarding_time, alighting_time, boarded, alighted, veh, current_time,
                   rv_edges, rr_edges, trip_list, assigned_trips, ilp, err>>
    /\ TickUnchanged

Next == Admit \/ BuildGraphs \/ IlpAssignment \/ SimulateVehicles \/ UpdateActive

\* The inputs of a run: configuration, network file, request file, vehicle file
TickConfigs ==
    { DefaultGlo,
      [DefaultGlo EXCEPT !.CARSIZE = 2],
      [DefaultGlo EXCEPT !.CARSIZE = 1],
      [DefaultGlo EXCEPT !.CARSIZE = 2, !.RTV_TIMELIMIT = 1],
      [DefaultGlo EXCEPT !.CARSIZE = 2, !.CTSP_OBJECTIVE = "CTSP_DELAY"],
      [DefaultGlo EXCEPT !.CARSIZE = 2, !.ALGORITHM = "ILP"],
      [DefaultGlo EXCEPT !.CARSIZE = 2, !.PRUNING_RV_K = 1],
      [DefaultGlo EXCEPT !.CARSIZE = 2, !.DWELL_PICKUP = 10, !.DWELL_ALIGHT = 20,
                         !.MAX_WAITING = 120, !.MAX_DETOUR = 130],
      [DefaultGlo EXCEPT !.CARSIZE = 2, !.CTSP = "FULL", !.ASSIGNMENT_OBJECTIVE = "AO_RMT"],
      [DefaultGlo EXCEPT !.CARSIZE = 2, !.CTSP = "FIX_PREFIX", !.LP_LIMITVALUE = 2] }

TickNetworks == { LineNetwork([i \in 1..LastNode |-> 60]),
                  LineNetwork([i \in 1..LastNode |-> 30]) }

\* Request i goes from node i - 1 to node LastNode - (i - 1), or the other way
\* round; all enter at 0, or one per tick
TickRequests ==
    { [i \in 1..NumReq |->
          Request(i, IF flip THEN (LastNode - (i - 1)) % (LastNode + 1) ELSE (i - 1) % (LastNode + 1),
                     IF flip THEN (i - 1) % (LastNode + 1) ELSE (LastNode - (i - 1)) % (LastNode + 1),
                     IF spread THEN (i - 1) * INTERVAL ELSE 0)] :
        flip \in BOOLEAN, spread \in BOOLEAN }

TickInit(configs, networks, requests) ==
    /\ glo \in configs
    /\ net \in networks
    /\ req \in requests
    /\ \E at \in [Vehicles -> {0, LastNode}] :
          veh = [v \in Vehicles |-> Vehicle(v, glo.CARSIZE, at[v])]
    /\ current_time = 0 - INTERVAL
    /\ boarding_time = [r \in DOMAIN req |-> 0]
    /\ alighting_time = [r \in DOMAIN req |-> 0]
    /\ assigned = [r \in DOMAIN req |-> FALSE]
    /\ boarded = {}
    /\ alighted = {}
    /\ active_requests = <<>>
    /\ rv_edges = {}
    /\ rr_edges = {}
    /\ trip_list = [v \in Vehicles |-> <<>>]
    /\ assigned_trips = [v \in Vehicles |-> 0]
    /\ ilp = NoSolution("none")
    /\ pc = "admit"
    /\ err = ""
    /\ call = NoCall

Init == TickInit(TickConfigs, TickNetworks, TickRequests)

Spec == Init /\ [][Next]_vars

\* A run on rounded input files: legs of 29.6 s, so that the travel-time file
\* says 30, 59 and 89 seconds for one, two and three legs, and a waiting window
\* that a pickup two legs away just meets
RoundedConfigs ==
    { [DefaultGlo EXCEPT !.CARSIZE = 2, !.MAX_WAITING = 59],
      [DefaultGlo EXCEPT !.CARSIZE = 2, !.MAX_WAITING = 59, !.CTSP_OBJECTIVE = "CTSP_DELAY"] }

RoundedNetworks == { RoundedNetwork([i \in 1..LastNode |-> 296]) }

InitRounded == TickInit(RoundedConfigs, RoundedNetworks, TickRequests)

SpecRounded == InitRounded /\ [][Next]_vars

\* A run with three requests and room for all of them: r1 crosses the line,
\* r2 and r3 each go one of four ways; with and without a time limit on the
\* RTV construction, and with a waiting window that some groups miss
GroupConfigs ==
    { [DefaultGlo EXCEPT !.CARSIZE = 3],
      [DefaultGlo EXCEPT !.CARSIZE = 3, !.RTV_TIMELIMIT = 1],
      [DefaultGlo EXCEPT !.CARSIZE = 3, !.MAX_WAITING = 120, !.MAX_DETOUR = 120] }

GroupTrips == { <<0, LastNode>>, <<LastNode, 0>>, <<1, 2>>, <<2, 1>> }

GroupRequests ==
    { [i \in 1..3 |-> Request(i, od[i][1], od[i][2], 0)] :
        od \in { f \in [1..3 -> GroupTrips] : f[1] = <<0, LastNode>> } }

InitGroup == TickInit(GroupConfigs, TickNetworks, GroupRequests)

SpecGroup == InitGroup /\ [][Next]_vars

-----------------------------------------------------------------------------
(* The RTV construction of one tick run twice on the same vehicles, requests, *)
(* network and clock: without a time limit, then with RTV_TIMELIMIT = 1.     *)
(* call keeps the two results.                                               *)

CompareUnchanged ==
    UNCHANGED <<net, req, boarding_time, alighting_time, assigned, boarded, alighted, veh,
                current_time, active_requests, rv_edges, rr_edges, trip_list,
                assigned_trips, ilp, err>>

\* build_rtv_graph (rtvgenerator.py 287-306) with RTV_TIMELIMIT = 0
CompareUntimed ==
    /\ pc = "build"
    /\ glo.RTV_TIMELIMIT = 0
    /\ \E graphs \in { rvgenerator(active_requests, current_time) } :
          \E built \in { build_rtv_graph(1, graphs, [v \in Vehicles |-> NoTimeout],
                                         current_time, <<>>) } :
             call' = [op |-> "rtv", untimed |-> built, timed |-> built]
    /\ glo' = [glo EXCEPT !.RTV_TIMELIMIT = 1]
    /\ pc' = "timed"
    /\ CompareUnchanged

\* the same call with RTV_TIMELIMIT = 1, the wall clock running out after any
\* number of pairs
CompareTimed ==
    /\ pc = "timed"
    /\ \E budget \in [Vehicles -> Budgets],
          graphs \in { rvgenerator(active_requests, current_time) } :
          \E built \in { build_rtv_graph(1, graphs, budget, current_time, <<>>) } :
             call' = [call EXCEPT !.timed = built]
    /\ pc' = "compared"
    /\ UNCHANGED glo
    /\ CompareUnchanged

NextCompare == Next \/ CompareUntimed \/ CompareTimed

SpecCompare == Init /\ [][NextCompare]_vars

-----------------------------------------------------------------------------
(* What a valid route is, stated without the search *)

\* The stops a route for (vehicle, requests) has to make
RequiredStops(vehicle, requests) ==
    {NodeStop(r, TRUE, req[r].origin) : r \in requests}
        \cup {NodeStop(r, FALSE, req[r].destination) : r \in requests \cup vehicle.passengers}

ActionOf(ns) == IF ns.is_pickup THEN PICKUP ELSE DROPOFF

\* The clock at which stop i of the order is reached when the vehicle starts
\* at start_clock from its node (stop 0 is the start)
RECURSIVE RouteClock(_, _, _, _)
RouteClock(vehicle, order, start_clock, i) ==
    IF i = 0 THEN start_clock
    ELSE ArrivalTime(IF i = 1 THEN vehicle.node ELSE order[i - 1].node,
                     RouteClock(vehicle, order, start_clock, i - 1),
                     IF i = 1 THEN NO_ACTION ELSE ActionOf(order[i - 1]),
                     order[i])

\* Passengers on board after the first i stops
Load(vehicle, order, i) ==
    Cardinality(vehicle.passengers)
        + Cardinality({j \in 1..i : order[j].is_pickup})
        - Cardinality({j \in 1..i : ~order[j].is_pickup})

ValidRoute(vehicle, requests, order, now) ==
    /\ Len(order) = Cardinality(RequiredStops(vehicle, requests))
    /\ Range(order) = RequiredStops(vehicle, requests)
    /\ \A i, j \in 1..Len(order) :
          order[i].r = order[j].r /\ order[i].is_pickup /\ ~order[j].is_pickup => i < j
    /\ \A i \in 1..Len(order) : Load(vehicle, order, i) <= vehicle.capacity
    /\ \A i \in 1..Len(order) :
          RouteClock(vehicle, order, now + vehicle.offset, i) <= Deadline(order[i])

\* The VTT cost of an order: completion clock minus the simulation clock
RouteCost(vehicle, order, now) ==
    RouteClock(vehicle, order, now + vehicle.offset, Len(order)) - now

\* Brute force: the earliest completion clock over every order of the stops in
\* remaining that keeps precedence, capacity and the deadlines; -1 if none
RECURSIVE BruteForce(_, _, _, _, _, _)
BruteForce(remaining, location, clock, prev_action, load, capacity) ==
    IF remaining = {} THEN clock
    ELSE LET ok(s) ==
                 /\ ~s.is_pickup => NodeStop(s.r, TRUE, req[s.r].origin) \notin remaining
                 /\ s.is_pickup => load + 1 <= capacity
                 /\ ArrivalTime(location, clock, prev_action, s) <= Deadline(s)
             ends == { BruteForce(remaining \ {s}, s.node,
                                  ArrivalTime(location, clock, prev_action, s), ActionOf(s),
                                  IF s.is_pickup THEN load + 1 ELSE load - 1, capacity) :
                         s \in {x \in remaining : ok(x)} } \ {-1}
         IN IF ends = {} THEN -1 ELSE CHOOSE t \in ends : \A u \in ends : t <= u

BestCost(vehicle, requests, now) ==
    LET best == BruteForce(RequiredStops(vehicle, requests), vehicle.node,
                           now + vehicle.offset, NO_ACTION,
                           Cardinality(vehicle.passengers), vehicle.capacity)
    IN IF best = -1 THEN -1 ELSE best - now

Returned == call.result.raised = "" /\ call.result.cost >= 0

\* C1: every route (cost >= 0, order) the untimed search returns, under any
\* CTSP policy, for travel and for the memory replay, makes each required stop
\* exactly once, pickups before their dropoffs, never exceeds the capacity and
\* reaches every stop by its deadline under the arrival model.
C1_UntimedRouteValid ==
    call.op \in {"travel", "memory"} /\ Returned
        => ValidRoute(call.vehicle, Range(call.requests), call.result.order, current_time)

C1_Witness ==
    /\ call.op = "travel" /\ Returned
    /\ Len(call.requests) = 2 /\ Cardinality(call.vehicle.passengers) = 2
    /\ glo.CTSP = "FIX_ONBOARD" /\ glo.DWELL_PICKUP > 0

\* C2: under FULL the untimed search returns -1 exactly when no order is
\* valid, and otherwise a route whose VTT cost is the minimum over all valid
\* orders.
C2_FullSearchOptimal ==
    call.op = "travel" /\ glo.CTSP = "FULL"
        => /\ call.result.raised = ""
           /\ call.result.cost = BestCost(call.vehicle, Range(call.requests), current_time)
           /\ call.result.cost >= 0 =>
                 call.result.cost = RouteCost(call.vehicle, call.result.order, current_time)

C2_Witness ==
    /\ call.op = "travel" /\ glo.CTSP = "FULL" /\ Returned
    /\ Len(call.requests) = 3 /\ Cardinality(call.vehicle.passengers) = 2

C2_WitnessInfeasible ==
    /\ call.op = "travel" /\ glo.CTSP = "FULL" /\ call.result.cost = -1
    /\ Len(call.requests) = 1 /\ glo.CARSIZE = 2

\* C6: with a positive time budget the timed search returns -1 or a complete
\* valid order with its true cost.
C6_TimedSearchSound ==
    call.op = "travel_timed" /\ Returned
        => /\ ValidRoute(call.vehicle, Range(call.requests), call.result.order, current_time)
           /\ call.result.cost = RouteCost(call.vehicle, call.result.order, current_time)

-----------------------------------------------------------------------------
(* Properties of the tick driver *)

CheckMessages == { "Some previously assigned requests were not included in any trip.",
                   "Did not replicate the previous trip!" }

\* The committed requests waiting on a vehicle: assigned, not yet boarded
Committed(v) == {r \in veh[v].pending_requests : assigned[r] /\ r \notin boarded}

\* C3: at every tick, each committed request (assigned, not yet boarded) that
\* is pending on a vehicle is in the requests of at least one trip of the list
\* built for that vehicle, and neither of the two checks on the trip lists
\* ("not included in any trip", "did not replicate the previous trip") fails.
C3_CommittedRequestKept ==
    /\ err \notin CheckMessages
    /\ pc = "ilp" =>
          \A v \in Vehicles : \A r \in Committed(v) :
              \E n \in 1..Len(trip_list[v]) : r \in trip_list[v][n].requests

\* Two committed requests wait on one vehicle for a second tick and its trip
\* list has been built
C3_Witness ==
    /\ pc = "ilp" /\ current_time >= 2 * INTERVAL
    /\ \E v \in Vehicles : Cardinality(Committed(v)) = 2

\* The vehicles whose selected trip contains request r
SelectedWith(r) ==
    {v \in Vehicles : ilp.e[v] # 0 /\ r \in trip_list[v][ilp.e[v]].requests}

\* C4: in every solution the assignment program returns, each committed
\* request of the active list is in exactly one selected trip, each new request
\* in at most one, and x_k = 1 exactly when no selected trip contains request k.
C4_CoverOrAbsorb ==
    pc = "move" /\ ilp.status = "solved" =>
        \A k \in 1..Len(active_requests) :
            IF assigned[active_requests[k]]
            THEN Cardinality(SelectedWith(active_requests[k])) = 1
            ELSE /\ Cardinality(SelectedWith(active_requests[k])) <= 1
                 /\ ilp.x[k] \in {0, 1}
                 /\ ilp.x[k] = 1 <=> SelectedWith(active_requests[k]) = {}

\* A solution with a committed request and a new request, each in a selected
\* trip
C4_Witness ==
    /\ pc = "move" /\ ilp.status = "solved"
    /\ \E k \in 1..Len(active_requests) :
          assigned[active_requests[k]] /\ SelectedWith(active_requests[k]) # {}
    /\ \E k \in 1..Len(active_requests) :
          ~assigned[active_requests[k]] /\ ilp.x[k] = 0

\* C5: under ILP_FULL every vehicle gets exactly one selected trip, under
\* any other algorithm at most one; the program always has a solution, every
\* trip list starting with the baseline trip (no requests).
C5_OneTripPerVehicle ==
    /\ pc \in {"ilp", "move"} =>
          \A v \in Vehicles : trip_list[v] # <<>> /\ trip_list[v][1].requests = {}
    /\ pc = "move" =>
          /\ ilp.status = "solved"
          /\ \A v \in Vehicles :
                /\ ilp.e[v] \in 0..Len(trip_list[v])
                /\ glo.ALGORITHM = "ILP_FULL" => ilp.e[v] # 0

\* Under ILP_FULL a vehicle with nothing to do is given its baseline trip,
\* the other vehicle a trip with a request
C5_Witness ==
    /\ pc = "move" /\ ilp.status = "solved" /\ glo.ALGORITHM = "ILP_FULL"
    /\ \E v, w \in Vehicles :
          /\ ilp.e[v] = 1 /\ veh[v].passengers = {}
          /\ ilp.e[w] > 1 /\ trip_list[w][ilp.e[w]].requests # {}

\* Under ILP a vehicle is left without a trip
C5_WitnessIlp ==
    /\ pc = "move" /\ ilp.status = "solved" /\ glo.ALGORITHM = "ILP"
    /\ \E v \in Vehicles : ilp.e[v] = 0

\* C7: the trip list of every vehicle starts with a baseline trip that has no
\* requests, whose order_record is a valid route of the dropoffs of all the
\* passengers on board and whose cost is the cost of that route, whatever
\* RTV_TIMELIMIT and CTSP_OBJECTIVE are.
C7_BaselineTrip ==
    pc = "ilp" =>
        \A v \in Vehicles :
            /\ trip_list[v] # <<>>
            /\ trip_list[v][1].requests = {}
            /\ ValidRoute(veh[v], {}, trip_list[v][1].order_record, current_time)
            /\ trip_list[v][1].cost =
                  IF glo.CTSP_OBJECTIVE = "CTSP_DELAY"
                  THEN delay_all(veh[v], trip_list[v][1].order_record, current_time)
                  ELSE RouteCost(veh[v], trip_list[v][1].order_record, current_time)

\* The replay of the vehicle's order_record in memory mode is infeasible now
ReplayInfeasible(v) ==
    /\ veh[v].order_record # <<>>
    /\ travel(veh[v], SetToSeq(veh[v].pending_requests), current_time, "MEMORY").cost = -1

\* C8: when the replay of a vehicle's non-empty order_record in memory mode is
\* infeasible at the current clock, the construction of the trip lists raises
\* and no trip list (so no memory trip) comes out of it, under CTSP_VTT and
\* under CTSP_DELAY.
C8_InfeasibleReplayFatal ==
    pc = "ilp" => \A v \in Vehicles : ~ReplayInfeasible(v)

C10_ParkedAtNode ==
    pc = "update" =>
        \A v \in Vehicles :
            /\ veh[v].offset >= 0
            /\ veh[v].offset = 0 => veh[v].prev_node = veh[v].node

\* The stops of request r in an order
StopsOf(order, r, is_pickup) ==
    {i \in 1..Len(order) : order[i].r = r /\ order[i].is_pickup = is_pickup}

\* An order in which each request has at most one pickup and one dropoff, the
\* pickup first, and that keeps the load within the capacity when executed
\* from the passengers now on board
WellFormedOrder(vehicle) ==
    /\ \A r \in DOMAIN req :
          /\ Cardinality(StopsOf(vehicle.order_record, r, TRUE)) <= 1
          /\ Cardinality(StopsOf(vehicle.order_record, r, FALSE)) <= 1
          /\ \A i \in StopsOf(vehicle.order_record, r, TRUE),
                j \in StopsOf(vehicle.order_record, r, FALSE) : i < j
    /\ \A i \in 1..Len(vehicle.order_record) :
          Load(vehicle, vehicle.order_record, i) <= vehicle.capacity

\* C11: after any sequence of ticks, in every vehicle's order_record each
\* request appears at most twice (one pickup, one dropoff), the pickup before
\* the dropoff, and executing the remaining order from the current passengers
\* never brings the load above the capacity.
C11_OrderRecordWellFormed ==
    \A v \in Vehicles : WellFormedOrder(veh[v])

\* A vehicle with a passenger on board whose remaining order still holds the
\* pickup and the dropoff of another request and fills the vehicle
C11_Witness ==
    \E v \in Vehicles :
        /\ veh[v].passengers # {}
        /\ \E r \in DOMAIN req :
              /\ StopsOf(veh[v].order_record, r, TRUE) # {}
              /\ StopsOf(veh[v].order_record, r, FALSE) # {}
        /\ \E i \in 1..Len(veh[v].order_record) :
              Load(veh[v], veh[v].order_record, i) = veh[v].capacity

\* C12: for the same vehicles, requests, network and clock, each vehicle gets
\* at least as many RTV trips with RTV_TIMELIMIT = 0 as with a positive
\* RTV_TIMELIMIT.
C12_UntimedAtLeastTimed ==
    pc = "compared" /\ call.untimed.raised = "" /\ call.timed.raised = ""
        => \A v \in Vehicles :
               Len(call.untimed.trip_list[v]) >= Len(call.timed.trip_list[v])

\* The trips of vehicle v that level growth emitted with k requests
GrownTrips(v, k) ==
    {n \in 1..Len(trip_list[v]) :
        ~trip_list[v][n].use_memory /\ Cardinality(trip_list[v][n].requests) = k}

\* C13: for every vehicle and every k >= 2, every trip that level growth
\* emitted with k requests has each of its (k-1)-request subsets as a trip of
\* the same vehicle's list, also when a timeout cut the level short.
C13_SubsetClosure ==
    pc = "ilp" =>
        \A v \in Vehicles : \A k \in 2..Len(req) : \A n \in GrownTrips(v, k) :
            \A r \in trip_list[v][n].requests :
                \E m \in 1..Len(trip_list[v]) :
                    trip_list[v][m].requests = trip_list[v][n].requests \ {r}

\* A vehicle whose list holds a trip with three requests, and another whose
\* level of two was cut short by the time limit
C13_Witness ==
    /\ pc = "ilp" /\ glo.RTV_TIMELIMIT # 0
    /\ \E v \in Vehicles : GrownTrips(v, 3) # {}
    /\ \E v \in Vehicles :
          /\ Cardinality(GrownTrips(v, 1)) = 3
          /\ Cardinality(GrownTrips(v, 2)) \in {1, 2}
          /\ GrownTrips(v, 3) = {}

\* An order that keeps the capacity and reaches every stop by its deadline
\* when the vehicle starts on it now
FeasibleOrder(vehicle, order, now) ==
    \A i \in 1..Len(order) :
        /\ Load(vehicle, order, i) <= vehicle.capacity
        /\ RouteClock(vehicle, order, now + vehicle.offset, i) <= Deadline(order[i])

\* C14: replaying in memory mode a stored order_record that is feasible at
\* the current clock returns exactly the stored stop sequence, and replaying
\* the returned sequence returns it again.
C14_MemoryReplayIdempotent ==
    call.op = "memory"
        /\ FeasibleOrder(call.vehicle, call.vehicle.order_record, current_time)
        => /\ call.result.raised = ""
           /\ call.result.cost >= 0
           /\ call.result.order = call.vehicle.order_record
           /\ memory([call.vehicle EXCEPT !.order_record = call.result.order],
                     current_time) = call.result

\* A replay of an order with two pickups and a passenger on board
C14_Witness ==
    /\ call.op = "memory"
    /\ FeasibleOrder(call.vehicle, call.vehicle.order_record, current_time)
    /\ call.vehicle.passengers # {}
    /\ Cardinality({i \in 1..Len(call.vehicle.order_record) :
                       call.vehicle.order_record[i].is_pickup}) = 2
    /\ call.result.order = call.vehicle.order_record

\* The vehicles shortlisted for request r whose search on r alone finds a route
FeasibleFor(r) ==
    {v \in Range(nearest_vs(r, current_time)) :
        travel(veh[v], <<r>>, current_time, "STANDARD").cost >= 0}

\* No search on a single request raises in this tick
SingletonsSearched ==
    \A k \in 1..Len(active_requests) :
        \A v \in Range(nearest_vs(active_requests[k], current_time)) :
            travel(veh[v], <<active_requests[k]>>, current_time, "STANDARD").raised = ""

EdgesOf(r) == {e.v : e \in {x \in rv_edges : x.r = r}}

Scenario(capacity) ==
    /\ pc = "ilp" /\ current_time = 0
    /\ glo = [DefaultGlo EXCEPT !.CARSIZE = capacity]
    /\ net = LineNetwork([i \in 1..LastNode |-> 60])
    /\ LastNode = 3
    /\ req[1].origin = 0 /\ req[1].destination = 3 /\ req[1].entry_time = 0
    /\ req[2].origin = 1 /\ req[2].destination = 2 /\ req[2].entry_time = 0
    /\ veh[1].node = 0 /\ veh[1].offset = 0 /\ veh[1].passengers = {}
    /\ veh[1].capacity = capacity

\* C16: in scenario 2 (capacity 4) the RV graph has an edge from the vehicle
\* to both requests, the RR graph the edges r1 -> r2 and r2 -> r1, the
\* vehicle's RTV list the baseline, {r1}, {r2} and {r1, r2}, and the {r1, r2}
\* route is pickup r1 at 0, pickup r2 at 1, dropoff r2 at 2, dropoff r1 at 3
\* with VTT cost 180.
C16_ScenarioTwo ==
    Scenario(4) =>
        /\ \A r \in {1, 2} : \E e \in rv_edges : e.v = 1 /\ e.r = r
        /\ \E e \in rr_edges : e.r1 = 1 /\ e.r2 = 2
        /\ \E e \in rr_edges : e.r1 = 2 /\ e.r2 = 1
        /\ {trip_list[1][n].requests : n \in 1..Len(trip_list[1])} = {{}, {1}, {2}, {1, 2}}
        /\ \A n \in 1..Len(trip_list[1]) :
              trip_list[1][n].requests = {1, 2} =>
                  /\ trip_list[1][n].order_record =
                        << NodeStop(1, TRUE, 0), NodeStop(2, TRUE, 1),
                           NodeStop(2, FALSE, 2), NodeStop(1, FALSE, 3) >>
                  /\ trip_list[1][n].cost = 180

\* Scenario 2 with its trip lists built
C16_Witness ==
    Scenario(4) /\ Len(trip_list[1]) = 4

\* C17 as stated: in scenario 3 (scenario 2 with capacity 1) the search on
\* (vehicle, {r1, r2}) returns infeasible, every visit order being rejected by
\* the capacity gate.
C17_GroupInfeasible ==
    Scenario(1) => travel(veh[1], <<1, 2>>, current_time, "STANDARD").cost = -1

\* C17: in scenario 3 the search on (vehicle, {r1, r2}) rejects by the
\* capacity gate every order that has both requests on board at once and
\* returns the order that serves them one after the other, pickup r1 at 0,
\* dropoff r1 at 3, pickup r2 at 1, dropoff r2 at 2, with VTT cost 360; the
\* vehicle's RTV list has no {r1, r2} trip.
C17_ScenarioThree ==
    Scenario(1) =>
        /\ travel(veh[1], <<1, 2>>, current_time, "STANDARD") =
              Route(360, << NodeStop(1, TRUE, 0), NodeStop(1, FALSE, 3),
                            NodeStop(2, TRUE, 1), NodeStop(2, FALSE, 2) >>)
        /\ \A i \in 1..4 :
              Load(veh[1], travel(veh[1], <<1, 2>>, current_time, "STANDARD").order, i) <= 1
        /\ {trip_list[1][n].requests : n \in 1..Len(trip_list[1])} = {{}, {1}, {2}}

\* Scenario 3 with its trip lists built
C17_Witness ==
    Scenario(1) /\ Len(trip_list[1]) = 3

\* A search call of the RV worker raises (with pruning, only the call for the
\* first shortlisted vehicle is looked at: it is always made)
RvWorkerRaises ==
    \E k \in 1..Len(active_requests) :
        \E j \in 1..Len(nearest_vs(active_requests[k], current_time)) :
            /\ glo.PRUNING_RV_K = 0 \/ j = 1
            /\ travel(veh[nearest_vs(active_requests[k], current_time)[j]],
                      <<active_requests[k]>>, current_time, "STANDARD").raised # ""

RrWorkerRaises ==
    \E i \in 1..Len(active_requests) : rr_raises(active_requests, i, current_time)

MoveWorkerRaises ==
    simulate_vehicles(1, [v \in Vehicles |->
                            IF assigned_trips[v] = 0 THEN <<>>
                            ELSE <<trip_list[v][assigned_trips[v]]>>],
                      current_time,
                      [vehicles |-> veh, boarding |-> {}, alighting |-> {},
                       raised |-> ""]).raised # ""

\* C18: an exception raised inside a worker of the RV, RR or RTV construction
\* or of the vehicle movement stops the run: the phase in which a worker
\* raises never completes normally.
C18_WorkerExceptionStopsRun ==
    [][ \/ pc = "build" /\ (RvWorkerRaises \/ RrWorkerRaises)
        \/ pc = "move" /\ MoveWorkerRaises
        => pc' = "error" ]_vars

\* model.Status of a solve that ilp_assignment does not accept (assignment.py
\* 105-109): the solve was interrupted
StoppedStatuses == {"INTERRUPTED"}

\* ilp_assignment when the solver ends with such a status: the status is
\* printed and the assignment returned is empty
IlpStopped ==
    /\ pc = "ilp"
    /\ \E v \in Vehicles : trip_list[v] # <<>>
    /\ \E status \in StoppedStatuses : ilp' = NoSolution(status)
    /\ assigned_trips' = [v \in Vehicles |-> 0]
    /\ pc' = "move"
    /\ UNCHANGED <<boarding_time, alighting_time, assigned, boarded, alighted, veh,
                   current_time, active_requests, rv_edges, rr_edges, trip_list, err>>
    /\ TickUnchanged

NextSolver == Next \/ IlpStopped

SpecSolver == Init /\ [][NextSolver]_vars

\* The commitments of a vehicle are in its order_record: the dropoff of every
\* passenger, the pickup and the dropoff of every pending request
CommitmentsKept(vehicle) ==
    /\ \A r \in vehicle.passengers : StopsOf(vehicle.order_record, r, FALSE) # {}
    /\ \A r \in vehicle.pending_requests :
          /\ StopsOf(vehicle.order_record, r, TRUE) # {}
          /\ StopsOf(vehicle.order_record, r, FALSE) # {}

\* C19: when the optimizer ends with a status other than optimal, suboptimal
\* or time-limit, the tick changes no commitment: the movement phase leaves
\* every vehicle its pending_requests and, in order_record, the dropoff of
\* every passenger and the stops of every pending request, and the next
\* tick's construction of the trip lists does not raise.
C19_StoppedSolverKeepsCommitments ==
    [][ /\ pc = "move" /\ ilp.status \in StoppedStatuses
           => \A v \in Vehicles :
                 /\ veh'[v].pending_requests = veh[v].pending_requests
                 /\ CommitmentsKept(veh'[v])
        /\ pc = "build" /\ ilp.status \in StoppedStatuses => pc' # "error" ]_vars

-----------------------------------------------------------------------------
(* The graphs of a tick built by several workers (args.THREADS > 1)          *)

\* math.ceil(a / b)
Ceil(a, b) == (a + b - 1) \div b

\* auto_thread (rvgenerator.py 143-177): worker i of thread_count gets the
\* requests [start, end) of job_count
auto_thread_start(job_count, thread_count, i) == Ceil(i * job_count, thread_count)

auto_thread_end(job_count, thread_count, i) ==
    Min(Ceil((i + 1) * job_count, thread_count), job_count)

\* make_rrgraph of the worker of requests[start + 1 .. end]: the iterations
\* before the first one that raises add their edges
make_rrgraph_range(requests, start, end, now) ==
    UNION { Only({
            {[r1 |-> requests[i], r2 |-> sorted[n].r, weight |-> sorted[n].cost] :
                n \in 1..(IF glo.PRUNING_RR_K > 0 /\ Len(sorted) > glo.PRUNING_RR_K
                          THEN glo.PRUNING_RR_K ELSE Len(sorted))}
            : sorted \in {SortByDetour(requests[i],
                                       Compatible(requests, requests[i], 1, now))} })
            : i \in {m \in (start + 1)..end :
                        \A k \in (start + 1)..m : ~rr_raises(requests, k, now)} }

\* The edges each worker adds to rv_graph and to rr_graph
rv_workers(requests, now, threads) ==
    [i \in 0..(threads - 1) |->
        make_rvgraph(SubSeq(requests, auto_thread_start(Len(requests), threads, i) + 1,
                            auto_thread_end(Len(requests), threads, i)),
                     1, 1, 0, {}, now)]

rr_workers(requests, now, threads) ==
    [i \in 0..(threads - 1) |->
        make_rrgraph_range(requests, auto_thread_start(Len(requests), threads, i),
                           auto_thread_end(Len(requests), threads, i), now)]

\* rvgenerator with threads workers: the graphs after all workers have ended,
\* every add_edge having been made under the graph's lock
rvgenerator_threads(requests, now, threads) ==
    [rv |-> UNION Range(rv_workers(requests, now, threads)),
     rr |-> UNION Range(rr_workers(requests, now, threads))]

\* build_rtv_graph (rtvgenerator.py 287-306): the workers whose range
\* [start, end) holds vehicle v, each of which writes trip_list[v]
rtv_writers(v, threads) ==
    {i \in 0..(threads - 1) :
        /\ i * (NumVeh \div threads) < v
        /\ v <= IF i < threads - 1 THEN (i + 1) * (NumVeh \div threads) ELSE NumVeh}

\* build_rtv_graph with threads workers: a worker stops at its first
\* exception, the other workers go on, and future.result() lets the
\* exception of the first worker that raised out
build_rtv_graph_threads(graphs, now, threads) ==
    Only({ IF \E v \in Vehicles : made[v].raised # ""
           THEN [raised |-> made[CHOOSE v \in Vehicles :
                                     /\ made[v].raised # ""
                                     /\ \A u \in 1..(v - 1) : made[u].raised = ""].raised,
                 trip_list |-> <<>>]
           ELSE [raised |-> "", trip_list |-> [v \in Vehicles |-> made[v].trips]]
           : made \in { [v \in Vehicles |->
                           make_rtvgraph(veh[v], graphs, NoTimeout, now)] } })

WorkerCounts == {2, 3}

\* ilp_assignement_full's graphs (assignment.py 154-158) of the tick, with
\* one worker and with threads workers
CompareThreads ==
    /\ pc = "build"
    /\ glo.RTV_TIMELIMIT = 0
    /\ \E threads \in WorkerCounts :
          \E one \in { rvgenerator(active_requests, current_time) },
             workers \in { [rv |-> rv_workers(active_requests, current_time, threads),
                            rr |-> rr_workers(active_requests, current_time, threads)] } :
             \E many \in { [rv |-> UNION Range(workers.rv), rr |-> UNION Range(workers.rr)] } :
                call' = [op |-> "threads", threads |-> threads, workers |-> workers,
                         one |-> [graphs |-> one,
                                  built |-> build_rtv_graph(1, one, [v \in Vehicles |-> NoTimeout],
                                                            current_time, <<>>)],
                         many |-> [graphs |-> many,
                                   built |-> build_rtv_graph_threads(many, current_time, threads)]]
    /\ pc' = "compared"
    /\ UNCHANGED glo
    /\ CompareUnchanged

NextThreads == Next \/ CompareThreads

\* Runs in which two requests enter together at the second tick
ThreadsConfigs ==
    { [DefaultGlo EXCEPT !.CARSIZE = 2],
      [DefaultGlo EXCEPT !.CARSIZE = 2, !.CTSP = "FIX_PREFIX", !.LP_LIMITVALUE = 2] }

ThreadsRequests ==
    { [i \in 1..3 |-> Request(i, od[i][1], od[i][2], IF i = 1 THEN 0 ELSE INTERVAL)] :
        od \in { f \in [1..3 -> GroupTrips] : f[1] \in {<<0, LastNode>>, <<LastNode, 0>>} } }

InitThreads == TickInit(ThreadsConfigs, TickNetworks, ThreadsRequests)

SpecThreads == InitThreads /\ [][NextThreads]_vars

\* The key of an RV edge and of an RR edge in the graph
RvKey(e) == <<e.v, e.r>>

RrKey(e) == <<e.r1, e.r2>>

\* The trips of a list as a set: request set, stop order, cost
TripSet(list) == {[requests |-> list[n].requests, order_record |-> list[n].order_record, cost |-> list[n].cost] : n \in 1..Len(list)}

-----------------------------------------------------------------------------
(* The search on a fleet whose capacities come from the vehicle file        *)

\* load_vehicles (helper.py 92-105): with CARSIZE < 0 each vehicle has the
\* capacity of its row
RowConfigs ==
    { [DefaultGlo EXCEPT !.CARSIZE = -1, !.CTSP = p, !.MAX_WAITING = w[1], !.MAX_DETOUR = w[2]] :
        p \in {"FIX_ONBOARD", "FULL"}, w \in SearchWindows }

RowCapacities == {2, 3, 4}

load_vehicles(driver_id, capacity, starting_node) ==
    Vehicle(driver_id, IF glo.CARSIZE >= 0 THEN glo.CARSIZE ELSE capacity, starting_node)

SearchInitRows ==
    /\ glo \in RowConfigs
    /\ net \in SearchNetworks
    /\ req \in SearchRequests
    /\ \E o \in SearchOnboard, p \in SearchPositions, c \in RowCapacities :
          /\ Cardinality(o.passengers) <= c
          /\ veh = [v \in {1} |->
                      [load_vehicles(1, c, p[1]) EXCEPT
                          !.offset = p[2], !.passengers = o.passengers,
                          !.order_record = o.order_record]]
    /\ current_time = 60
    /\ boarding_time = [r \in DOMAIN req |-> 0]
    /\ alighting_time = [r \in DOMAIN req |-> 0]
    /\ assigned = [r \in DOMAIN req |-> FALSE]
    /\ boarded = {}
    /\ alighted = {}
    /\ active_requests = <<>>
    /\ rv_edges = {}
    /\ rr_edges = {}
    /\ trip_list = <<>>
    /\ assigned_trips = <<>>
    /\ ilp = [status |-> "none"]
    /\ pc = "search"
    /\ err = ""
    /\ call = NoCall

SpecRows == SearchInitRows /\ [][SearchNext]_vars

\* The wrappers of the onboard dropoffs are the last ones of the table, in
\* order_record order
OnboardWrappers(g, vehicle) ==
    (Len(g.metas) - Cardinality(vehicle.passengers) + 1)..Len(g.metas)

\* C21: under FIX_ONBOARD, for a vehicle with passengers, the onboard dropoffs
\* are chained in order_record order (only the first available, each
\* unlocking the next) exactly when |R| + |passengers| exceeds the vehicle's
\* own capacity, and are all available at once otherwise.
C21_OnboardChainByOwnCapacity ==
    call.op = "travel" /\ glo.CTSP = "FIX_ONBOARD" /\ call.vehicle.passengers # {} =>
        \A g \in { StopGraph(call.vehicle, call.requests) } :
           g.status = "ok" =>
              IF Len(call.requests) + Cardinality(call.vehicle.passengers) > call.vehicle.capacity
              THEN /\ g.avail \cap OnboardWrappers(g, call.vehicle)
                         = {Len(g.metas) - Cardinality(call.vehicle.passengers) + 1}
                   /\ \A k \in OnboardWrappers(g, call.vehicle) :
                         g.metas[k].unlocks = IF k < Len(g.metas) THEN <<k + 1>> ELSE <<>>
              ELSE /\ OnboardWrappers(g, call.vehicle) \subseteq g.avail
                   /\ \A k \in OnboardWrappers(g, call.vehicle) : g.metas[k].unlocks = <<>>

\* len(meta_nodes) of new_travel: two wrappers per request and one per
\* passenger whose dropoff is in order_record
MetaCount(vehicle, requests) ==
    2 * Len(requests)
       + Cardinality({r \in vehicle.passengers : StopsOf(vehicle.order_record, r, FALSE) # {}})

\* C22: under FIX_PREFIX with M > LP_LIMITVALUE meta stops, the search returns
\* infeasible when more than LP_LIMITVALUE / 2 of the requests are not pending
\* on the vehicle; otherwise it does not raise and returns infeasible or a
\* route whose first M - LP_LIMITVALUE stops are the first M - LP_LIMITVALUE
\* stops of the previous order_record, in that order.
C22_FixPrefixKeepsPrefix ==
    /\ call.op = "travel" /\ glo.CTSP = "FIX_PREFIX"
    /\ MetaCount(call.vehicle, call.requests) > glo.LP_LIMITVALUE
    => IF 2 * Cardinality(Range(call.requests) \ call.vehicle.pending_requests) > glo.LP_LIMITVALUE
       THEN call.result = Route(-1, <<>>)
       ELSE /\ call.result.raised = ""
            /\ \/ call.result.cost = -1
               \/ \A i \in 1..(MetaCount(call.vehicle, call.requests) - glo.LP_LIMITVALUE) :
                     /\ i <= Len(call.vehicle.order_record)
                     /\ call.result.order[i] = call.vehicle.order_record[i]

\* C23: a memory-replay trip (use_memory) is in a vehicle's trip list only
\* when the vehicle's order_record is not empty and no other trip of the list
\* has its request set; a vehicle's trip list never holds two trips with the
\* same request set.
C23_MemoryTripOnlyWhenMissing ==
    pc = "ilp" =>
       \A v \in Vehicles :
          /\ \A n \in 1..Len(trip_list[v]) :
                trip_list[v][n].use_memory => veh[v].order_record # <<>>
          /\ \A m, n \in 1..Len(trip_list[v]) :
                m # n => trip_list[v][m].requests # trip_list[v][n].requests

-----------------------------------------------------------------------------
(* Runs under the delay objective with requests that share their stops      *)

DelayConfigs ==
    { [DefaultGlo EXCEPT !.CARSIZE = 2, !.CTSP_OBJECTIVE = "CTSP_DELAY"],
      [DefaultGlo EXCEPT !.CARSIZE = 2, !.CTSP_OBJECTIVE = "CTSP_DELAY",
                         !.DWELL_PICKUP = 10, !.DWELL_ALIGHT = 20] }

InitDelay == TickInit(DelayConfigs, TickNetworks, GroupRequests)

SpecDelay == InitDelay /\ [][Next]_vars

\* The total delay of an order in the search's arrival model: over its
\* dropoffs, the arrival clock minus entry_time + ideal_traveltime, if positive
RECURSIVE SearchDelay(_, _, _, _)
SearchDelay(vehicle, order, now, i) ==
    IF i > Len(order) THEN 0
    ELSE (IF order[i].is_pickup THEN 0
          ELSE Max(0, RouteClock(vehicle, order, now + vehicle.offset, i)
                         - (req[order[i].r].entry_time + req[order[i].r].ideal_traveltime)))
         + SearchDelay(vehicle, order, now, i + 1)

\* C24: under CTSP_DELAY the cost stored with every trip of the trip lists is
\* the sum over the dropoffs of its order of max(0, arrival - (entry_time +
\* ideal_traveltime)), the arrivals being those of the search's arrival model.
C24_DelayCostMatchesSearchClock ==
    pc = "ilp" /\ glo.CTSP_OBJECTIVE = "CTSP_DELAY" =>
       \A v \in Vehicles : \A n \in 1..Len(trip_list[v]) :
          trip_list[v][n].cost = SearchDelay(veh[v], trip_list[v][n].order_record, current_time, 1)

\* The requests of a one-vehicle fleet's trip list that the assignment e
\* leaves unserved (x = 1)
Unserved(lists, e) ==
    {k \in 1..Len(active_requests) : x_of(lists, active_requests, e)[k] = 1}

\* C25: level growth stops at k = vehicle.capacity: no trip built by level
\* growth has more requests than the vehicle's capacity; in scenario 3
\* (capacity 1, two requests) the vehicle's list holds no {r1, r2} trip, and
\* the assignment of that one vehicle serves exactly one of the two requests
\* and leaves the other with x = 1.
C25_GrowthStopsAtCapacity ==
    /\ pc = "ilp" =>
          \A v \in Vehicles : \A n \in 1..Len(trip_list[v]) :
             ~trip_list[v][n].use_memory
                => Cardinality(trip_list[v][n].requests) <= veh[v].capacity
    /\ Scenario(1) =>
          /\ \A n \in 1..Len(trip_list[1]) : trip_list[1][n].requests # {1, 2}
          /\ acceptable(<<trip_list[1]>>, active_requests) # {}
          /\ \A e \in acceptable(<<trip_list[1]>>, active_requests) :
                /\ Cardinality(trip_list[1][e[1]].requests) = 1
                /\ Cardinality(Unserved(<<trip_list[1]>>, e)) = 1
                /\ \A k \in Unserved(<<trip_list[1]>>, e) :
                      active_requests[k] \notin trip_list[1][e[1]].requests

\* Scenario 3 at the assignment, both requests active and the vehicle's
\* single-request trips in its list
C25_Witness ==
    /\ Scenario(1)
    /\ Range(active_requests) = {1, 2}
    /\ \E m, n \in 1..Len(trip_list[1]) :
          trip_list[1][m].requests = {1} /\ trip_list[1][n].requests = {2}

-----------------------------------------------------------------------------
(* Runs with a pruned RR graph                                               *)

PrunedConfigs ==
    { [DefaultGlo EXCEPT !.CARSIZE = 3, !.PRUNING_RR_K = 1],
      [DefaultGlo EXCEPT !.CARSIZE = 3, !.PRUNING_RR_K = 2] }

InitPruned == TickInit(PrunedConfigs, TickNetworks, GroupRequests)

SpecPruned == InitPruned /\ [][Next]_vars

\* C26: in every trip with k >= 2 requests built by level growth, every two
\* distinct requests of the trip are joined by an RR edge in at least one
\* direction.
C26_TripsPairwiseRrConnected ==
    pc = "ilp" =>
        \A v \in Vehicles : \A k \in 2..Len(req) : \A n \in GrownTrips(v, k) :
            \A a, b \in trip_list[v][n].requests :
                a # b => \E e \in rr_edges : <<e.r1, e.r2>> \in {<<a, b>>, <<b, a>>}

\* A trip of three requests in a vehicle's list, built from two trips of two
\* requests, under a positive PRUNING_RR_K
C26_Witness ==
    /\ pc = "ilp" /\ glo.PRUNING_RR_K > 0
    /\ \E v \in Vehicles : GrownTrips(v, 3) # {} /\ Cardinality(GrownTrips(v, 2)) >= 2

-----------------------------------------------------------------------------
(* The index ranges handed to the workers, as a function of the job count    *)
(* and the worker count                                                       *)

MaxJobs == 9
MaxWorkers == 6

\* auto_thread (rvgenerator.py 143-153): the [start, end) of worker i
auto_thread_ranges(job_count, thread_count) ==
    [raised |-> "",
     ranges |-> [n \in 1..thread_count |->
                    <<auto_thread_start(job_count, thread_count, n - 1),
                      auto_thread_end(job_count, thread_count, n - 1)>>]]

\* build_rtv_graph (rtvgenerator.py 287-300): vehicles_per_thread each, the
\* last worker up to len(vehicles)
build_rtv_graph_ranges(job_count, threads) ==
    [raised |-> "",
     ranges |-> [n \in 1..threads |->
                    <<(n - 1) * (job_count \div threads),
                      IF n - 1 < threads - 1 THEN n * (job_count \div threads)
                                             ELSE job_count>>]]

\* simulate_vehicles (simulate.py 248-261): one chunk per element of
\* range(0, num_vehicles, chunk_size), and range() raises on a step of 0
simulate_vehicles_ranges(num_vehicles, num_threads) ==
    Only({ IF chunk_size = 0
           THEN [raised |-> "ValueError", ranges |-> <<>>]
           ELSE [raised |-> "",
                 ranges |-> [n \in 1..Ceil(num_vehicles, chunk_size) |->
                                <<(n - 1) * chunk_size,
                                  Min((n - 1) * chunk_size + chunk_size, num_vehicles)>>]]
           : chunk_size \in {(num_vehicles + num_threads - 1) \div num_threads} })

ChunkCall(op, job_count, thread_count, answer) ==
    [op |-> op, job_count |-> job_count, thread_count |-> thread_count,
     raised |-> answer.raised, ranges |-> answer.ranges]

InitChunks ==
    /\ glo = DefaultGlo
    /\ net \in TickNetworks
    /\ req = <<>>
    /\ veh = <<>>
    /\ current_time = 0
    /\ boarding_time = <<>>
    /\ alighting_time = <<>>
    /\ assigned = <<>>
    /\ boarded = {}
    /\ alighted = {}
    /\ active_requests = <<>>
    /\ rv_edges = {}
    /\ rr_edges = {}
    /\ trip_list = <<>>
    /\ assigned_trips = <<>>
    /\ ilp = [status |-> "none"]
    /\ pc = "chunks"
    /\ err = ""
    /\ \E job_count \in 0..MaxJobs, thread_count \in 1..MaxWorkers :
          call = ChunkCall("none", job_count, thread_count, [raised |-> "", ranges |-> <<>>])

AutoThread ==
    /\ pc = "chunks"
    /\ call' = ChunkCall("auto_thread", call.job_count, call.thread_count,
                         auto_thread_ranges(call.job_count, call.thread_count))
    /\ UNCHANGED <<glo, net, req, boarding_time, alighting_time, assigned, boarded, alighted, veh, current_time, active_requests, rv_edges, rr_edges, trip_list, assigned_trips, ilp, pc, err>>

BuildRtvGraphRanges ==
    /\ pc = "chunks"
    /\ call' = ChunkCall("build_rtv_graph", call.job_count, call.thread_count,
                         build_rtv_graph_ranges(call.job_count, call.thread_count))
    /\ UNCHANGED <<glo, net, req, boarding_time, alighting_time, assigned, boarded, alighted, veh, current_time, active_requests, rv_edges, rr_edges, trip_list, assigned_trips, ilp, pc, err>>

SimulateVehiclesRanges ==
    /\ pc = "chunks"
    /\ call' = ChunkCall("simulate_vehicles", call.job_count, call.thread_count,
                         simulate_vehicles_ranges(call.job_count, call.thread_count))
    /\ UNCHANGED <<glo, net, req, boarding_time, alighting_time, assigned, boarded, alighted, veh, current_time, active_requests, rv_edges, rr_edges, trip_list, assigned_trips, ilp, pc, err>>

NextChunks == AutoThread \/ BuildRtvGraphRanges \/ SimulateVehiclesRanges

SpecChunks == InitChunks /\ [][NextChunks]_vars

\* The ranges are contiguous from 0 to job_count, and every index of
\* [0, job_count) lies in exactly one of them
PartitionOf(ranges, job_count) ==
    /\ \A n \in 1..Len(ranges) : ranges[n][1] <= ranges[n][2]
    /\ \A n \in 1..(Len(ranges) - 1) : ranges[n][2] = ranges[n + 1][1]
    /\ Len(ranges) > 0 => ranges[1][1] = 0 /\ ranges[Len(ranges)][2] = job_count
    /\ \A i \in 0..(job_count - 1) :
          Cardinality({n \in 1..Len(ranges) : ranges[n][1] <= i /\ i < ranges[n][2]}) = 1

\* C27: for every job count N >= 0 and every worker count T >= 1 the index
\* ranges handed to the workers by auto_thread, build_rtv_graph and
\* simulate_vehicles are contiguous, pairwise disjoint and cover every index
\* of [0, N) exactly once, and computing them raises nothing.
C27_RangesPartitionJobs ==
    (pc = "chunks" /\ call.op # "none") =>
        call.raised = "" /\ PartitionOf(call.ranges, call.job_count)

\* The same statement for the job counts N >= 1
C27_RangesPartitionNonEmpty ==
    (pc = "chunks" /\ call.op # "none" /\ call.job_count >= 1) =>
        call.raised = "" /\ PartitionOf(call.ranges, call.job_count)

-----------------------------------------------------------------------------
(* Who holds a request                                                        *)

\* The requests a vehicle holds: those it is to pick up and those on board
Held(v) == veh[v].pending_requests \cup veh[v].passengers

\* C28: in every state of a run, hence after any sequence of ticks in which
\* the solver returned an assignment, no request is pending for or on board
\* of two different vehicles, no request is both pending and a passenger of a
\* vehicle, and no vehicle has more passengers than its capacity.
C28_RequestHeldByOneVehicle ==
    /\ \A v, w \in Vehicles : v # w => Held(v) \cap Held(w) = {}
    /\ \A v \in Vehicles : veh[v].pending_requests \cap veh[v].passengers = {}
    /\ \A v \in Vehicles : Cardinality(veh[v].passengers) <= veh[v].capacity

\* After a solved tick one vehicle carries as many passengers as it has
\* seats while the other vehicle is on its way to a pickup
C28_Witness ==
    /\ pc = "update" /\ ilp.status = "solved"
    /\ \E v, w \in Vehicles :
          /\ v # w
          /\ Cardinality(veh[v].passengers) = veh[v].capacity
          /\ veh[w].pending_requests # {}

-----------------------------------------------------------------------------
(* A committed request until it boards                                        *)

\* The solver did not return an assignment in this tick, or the run stopped
SolverFailed == pc = "error" \/ ilp.status \in {"infeasible", "no trips"}

\* The loop has ended (main.py 102)
RunOver == pc = "admit" /\ ~(current_time < final_time - INTERVAL)

\* The driver leaves its position: enabled exactly where Next is, at every
\* position but the end of the loop and an exception
LeavePosition ==
    /\ ~(RunOver \/ pc = "error")
    /\ pc' \in {"admit", "build", "ilp", "move", "update", "error"} \ {pc}
    /\ UNCHANGED <<glo, net, req, boarding_time, alighting_time, assigned, boarded, alighted, veh, current_time, active_requests, rv_edges, rr_edges, trip_list, assigned_trips, ilp, err, call>>

\* The while loop of main.py is sequential code that runs tick after tick
\* until final_time: the driver never stays for ever at a position it can
\* leave
SpecFair == Init /\ [][Next]_vars /\ WF_vars(LeavePosition)

\* The same loop on the rounded input files
SpecFairRounded == InitRounded /\ [][Next]_vars /\ WF_vars(LeavePosition)

\* The end of a tick whose solver returned an assignment: a committed request
\* of the tick's active list that has not boarded is in the next active list
KeptUntilBoarded ==
    (pc = "update" /\ pc' = "admit" /\ ilp.status = "solved") =>
        \A r \in Range(active_requests) :
            (assigned'[r] /\ r \notin boarded') => r \in Range(active_requests')

\* C29: provided the solver returns an assignment at every tick, a committed
\* request stays in the active request list from tick to tick until it
\* boards, and it eventually boards, no later than its latest_boarding,
\* unless the run ends before its latest_boarding.
C29_CommittedBoards ==
    /\ [][KeptUntilBoarded]_vars
    /\ \A r \in 1..NumReq :
          [](assigned[r] =>
                <>(\/ r \in boarded /\ boarding_time[r] <= req[r].latest_boarding
                   \/ SolverFailed
                   \/ RunOver /\ current_time < req[r].latest_boarding))

\* A committed request boards in a later tick than the one that committed
\* it, and the run goes on past its latest_boarding
C29_Witness ==
    /\ RunOver /\ ilp.status = "solved"
    /\ \E r \in DOMAIN req :
          /\ assigned[r] /\ r \in boarded
          /\ boarding_time[r] >= req[r].entry_time + INTERVAL
          /\ req[r].latest_boarding <= current_time

-----------------------------------------------------------------------------
(* Requests of the file before, in and after the simulated horizon            *)

\* Request files are not cut to [INITIAL_TIME, FINAL_TIME): the second request
\* enters before the first tick, with the first request, a tick later, or
\* after the last tick
HorizonConfigs ==
    { [DefaultGlo EXCEPT !.CARSIZE = 1],
      [DefaultGlo EXCEPT !.CARSIZE = 2, !.MAX_WAITING = 120] }

HorizonRequests ==
    { [i \in 1..NumReq |->
          Request(i, IF flip THEN (LastNode - (i - 1)) % (LastNode + 1) ELSE (i - 1) % (LastNode + 1),
                     IF flip THEN (i - 1) % (LastNode + 1) ELSE (LastNode - (i - 1)) % (LastNode + 1),
                     IF i = 1 THEN 0 ELSE entry)] :
        flip \in BOOLEAN, entry \in {0 - INTERVAL, 0, INTERVAL, final_time} }

InitHorizon == TickInit(HorizonConfigs, TickNetworks, HorizonRequests)

SpecHorizon == InitHorizon /\ [][Next]_vars /\ WF_vars(LeavePosition)

\* The request is new at the clock: get_new_requests returns it
New(r) == req[r].entry_time <= current_time /\ current_time < req[r].entry_time + INTERVAL

\* One of the ticks of the run is the request's tick
InHorizon(r) ==
    \E k \in 0..(MaxTick - 1) :
        req[r].entry_time <= k * INTERVAL /\ k * INTERVAL < req[r].entry_time + INTERVAL

\* The request is in the active list of its tick
Enters(r) == pc = "build" /\ New(r) /\ r \in Range(active_requests)

\* The request's tick has ended
Past(r) ==
    \/ current_time >= req[r].entry_time + INTERVAL
    \/ pc = "admit" /\ current_time >= req[r].entry_time

\* In the active list of a tick a request that is not committed is new, and
\* no request is twice in the list
OnlyNewOrCommitted ==
    /\ pc \in {"build", "ilp", "move", "update"} =>
          \A r \in Range(active_requests) : New(r) \/ assigned[r]
    /\ \A m, n \in 1..Len(active_requests) :
          active_requests[m] = active_requests[n] => m = n

\* The end of a request's tick: in no selected trip, it is neither committed
\* nor kept
DroppedAtOnce ==
    (pc = "update" /\ pc' = "admit") =>
        \A r \in Range(active_requests) :
            (~assigned[r] /\ \A v \in Vehicles :
                 assigned_trips[v] = 0 \/ r \notin trip_list[v][assigned_trips[v]].requests)
            => ~assigned'[r] /\ r \notin Range(active_requests')

\* After its tick a request that is not committed stays out
DroppedForGood ==
    \A r \in DOMAIN req :
        (Past(r) /\ ~assigned[r]) =>
            /\ r \notin Range(active_requests) /\ r \notin boarded
            /\ ~assigned'[r] /\ r \notin Range(active_requests') /\ r \notin boarded'

\* C30 as stated: every request enters the active request list in exactly one
\* tick, the tick t with entry_time <= t < entry_time + INTERVAL, and a new
\* request that is in no selected trip at the end of that tick is absent from
\* the active list of every later tick and is never assigned or boarded.
C30_EveryRequestEntersOnce ==
    /\ \A r \in 1..NumReq : <>Enters(r)
    /\ []OnlyNewOrCommitted
    /\ [][DroppedAtOnce /\ DroppedForGood]_vars

\* C30 for the requests of the horizon: a request enters the active list in
\* exactly one tick if one of the run's ticks t has
\* entry_time <= t < entry_time + INTERVAL, and in no tick otherwise; a new
\* request in no selected trip at the end of its tick is dropped for good.
C30_RequestOfHorizonEntersOnce ==
    /\ \A r \in 1..NumReq : InHorizon(r) => <>Enters(r)
    /\ [](\A r \in Range(active_requests) : InHorizon(r))
    /\ []OnlyNewOrCommitted
    /\ [][DroppedAtOnce /\ DroppedForGood]_vars

\* A new request was in no selected trip of its tick, whose solver returned an
\* assignment that commits the other request, and a later tick has begun
C30_Witness ==
    /\ pc = "build" /\ ilp.status = "solved"
    /\ \E r, o \in DOMAIN req :
          /\ InHorizon(r) /\ Past(r) /\ ~assigned[r]
          /\ assigned[o] /\ o \in Range(active_requests)
====
